---- MODULE Spec2Model ----
(***************************************************************************)
(* A model of the extraction -> chunking -> embedding pipeline of the      *)
(* repository (backend/chunk_generator.py, chunk_embedding_generator.py,   *)
(* openai_embedder.py).                                                    *)
(*                                                                         *)
(* Spec       one ChunkEmbeddingGenerator object and one call of           *)
(*            generate_embeddings on it, every call of the embedding       *)
(*            service being free to succeed or to raise.                   *)
(* SpecChunk  one ChunkGenerator object and one call of generate_chunks.   *)
(***************************************************************************)
EXTENDS Integers, Sequences, FiniteSets, TLC

\* ------------------------------------------------------------------ bounds
\* The longest chunk sequence loaded from the chunk file.
MaxChunks == 4
\* The largest batch_size passed to generate_embeddings.
MaxBatch == 4
\* The longest file text (in characters) given to the Chunk Generator.
MaxFileLen == 4
\* The most entities in one file's entity list.
MaxEntities == 2
\* The largest line number an entity of the metadata may carry.
MaxLine == 3
\* The longest entity name (in characters) given to get_visibility.
MaxNameLen == 6
\* The largest number of files in the repository.
MaxFiles == 3
\* How often traverse_repo is called on one repository.
MaxWalks == 2
\* The largest number of records in an embedding file given to the indexer.
MaxRecords == 3
\* The longest JSON array the Language Model Service answers with.
MaxResponseLen == 7

\* The chunk texts the chunk file may hold.
Texts == {"a", "b"}

VARIABLES
    \* --- ChunkEmbeddingGenerator (chunk_embedding_generator.py)
    chunks,        \* self.chunks: the loaded Chunk(content, metadata) sequence
    embeddings,    \* self.embeddings: the records appended so far
    batch_size,    \* the argument of generate_embeddings (0: not called yet)
    pc,            \* where generate_embeddings is
    idx,           \* the for loop's cursor into self.chunks (1-indexed)
    batch_chunks,  \* the local batch_chunks
    batch_no,      \* the local batch_no
    stack,         \* the activation records of _get_batch_embeddings
    ret,           \* what is on its way to the caller: nothing, a returned
                   \* value, or an exception that propagates
    output_file,   \* the content of self.output_file on disk
    saves,         \* how many times self.output_file has been written
    passed,        \* the reported count `passed` (-1: not reported)
    failed,        \* the reported count `failed`
    calls,         \* history: every call of get_openai_embedding so far
    batches,       \* history: every batch handed to _process_batch
    \* --- ChunkGenerator (chunk_generator.py)
    file_text,     \* the characters of the file at self.file_path
    file_metadata, \* self.file_metadata: the file's entity list
    gen_chunks,    \* self.chunks of the ChunkGenerator
    gen_symbols_text, \* history: the text each chunk's symbols were taken from
    gen_i,         \* the cursor of `for item in self.file_metadata` (1-indexed)
    gen_pc         \* where generate_chunks is

VARIABLES
    \* --- get_visibility (ast_extractor.py)
    vis_name,      \* the entity name given to get_visibility
    vis_result     \* what FunctionExtractor / ClassExtractor returned for it

VARIABLES
    \* --- the repository on disk
    repo_is_dir,   \* os.path.isdir(repo_path)
    repo_files,    \* the names of the files of the repository
    bad_files,     \* the files whose reading or parsing raises
    \* --- MetadataCollector (metadata_collector.py)
    entry,         \* the entry point of the run
    mc_pc,         \* position in collect_metadata_sequential / run
    mc_files,      \* files, as returned by traverse_repo
    mc_i,          \* the loop's position in files (1-indexed)
    mc_metadata,   \* metadata
    mc_readmes,    \* readme_contents
    mc_processed,  \* history: the paths handed to process_file
    \* --- the artifact directories
    metadata_file, \* the JSON value of <repo_name>_metadata.json, or absent
    write_log,     \* history: the artifacts written, in order
    \* --- ChunkOrchestrator (chunk_orchestrator.py)
    or_pc,         \* position in ChunkOrchestrator.run
    or_raised,     \* the exception that left run, "none" without one
    or_file_metadatas, \* self.file_metadatas, a JSON value
    or_files,      \* files of generate_all_chunks
    or_i,          \* the loop's position in files (1-indexed)
    or_chunks,     \* self.chunks
    \* --- index_repository_helper (api_helpers.py)
    api_pc,        \* position in index_repository_helper
    \* --- traverse_repo called again and again (repo_traversal.py)
    walk_results,  \* what each call of traverse_repo returned
    \* --- FAISSIndexer (faiss_indexer.py)
    ix_pc,         \* position in load_data / create_index
    ix_file,       \* the records of the embedding file
    ix_loaded,     \* texts, embeddings, metadatas as load_data returned them
    ix_handed,     \* the triples handed to FAISS.from_embeddings
    \* --- QueryProcessor (query_processor.py)
    qp_pc,         \* position in process_query
    qp_user_query, \* user_query
    qp_response,   \* what the Language Model Service answers
    qp_variants,   \* query_variants
    qp_i,          \* the position of _retrieve_results in query_variants
    qp_results     \* the keys of retrieved_results

visVars == <<vis_name, vis_result>>
fsVars == <<repo_is_dir, repo_files, bad_files>>
mcVars == <<entry, mc_pc, mc_files, mc_i, mc_metadata, mc_readmes,
            mc_processed, metadata_file, write_log>>
orVars == <<or_pc, or_raised, or_file_metadatas, or_files, or_i, or_chunks>>
runVars == <<fsVars, mcVars, orVars, api_pc, walk_results>>
VARIABLES
    \* --- _process_batch on a service response (chunk_embedding_generator.py)
    pb_pc,           \* position in _process_batch
    pb_batch_chunks, \* batch_chunks
    pb_response,     \* resp_json["data"], the items the service answers with
    pb_result,       \* what _get_batch_embeddings returns
    pb_records,      \* the records appended to self.embeddings
    \* --- generate_embeddings called a second time
    called_again,    \* TRUE once generate_embeddings has been called again
    \* --- validate_github_url (repository_service.py)
    vu_owner,        \* the owner the test URLs are spelled with
    vu_repo,         \* the repository name they are spelled with
    vu_i,            \* the next URL of test_urls (1-indexed)
    vu_results,      \* what validate_github_url did for each URL so far
    \* --- POST /index-repo when the download fails
    dl_pc,           \* position in download_repository and its callers
    dl_url,          \* repo_url
    dl_disk,         \* which of local_path, local_path.zip, local_path_temp exist
    dl_cause,        \* history: what went wrong in the download
    dl_raised,       \* the exception on its way up, if any
    dl_response      \* the HTTP answer of the endpoint, if any

pbVars == <<pb_pc, pb_batch_chunks, pb_response, pb_result, pb_records>>
urlVars == <<vu_owner, vu_repo, vu_i, vu_results>>
dlVars == <<dl_pc, dl_url, dl_disk, dl_cause, dl_raised, dl_response>>
lateVars == <<pbVars, called_again, urlVars, dlVars>>
ixVars == <<ix_pc, ix_file, ix_loaded, ix_handed>>
qpVars == <<qp_pc, qp_user_query, qp_response, qp_variants, qp_i, qp_results>>
sideVars == <<visVars, ixVars, qpVars>>
pipeVars == <<sideVars, runVars, lateVars>>

embedVars == <<chunks, embeddings, batch_size, pc, idx, batch_chunks, batch_no,
               stack, ret, output_file, saves, passed, failed, calls, batches>>
chunkVars == <<file_text, file_metadata, gen_chunks, gen_symbols_text, gen_i,
               gen_pc>>
vars == <<embedVars, chunkVars, pipeVars>>

\* ----------------------------------------------------------------- helpers
Min(a, b) == IF a < b THEN a ELSE b

\* Python's s[lo:hi] for 0 <= lo, on a sequence (0-indexed, hi exclusive,
\* both ends clipped to the sequence).
Slice(s, lo, hi) ==
    LET h == Min(hi, Len(s))
    IN  IF lo >= h THEN <<>> ELSE SubSeq(s, lo + 1, h)

\* [x] * n
Repeat(x, n) == [i \in 1..n |-> x]

\* ------------------------------------------------- the embedding service
\* The null embedding of a failed chunk (Python's None).
None == <<"None">>

\* The vector the service returns for one text.
Vec(t) == <<"vec", t>>

\* get_openai_embedding(list) when it does not raise: one vector per item
\* of resp_json["data"], the service answering item i for input i.
EmbedList(texts) == [i \in 1..Len(texts) |-> Vec(texts[i])]

\* get_openai_embedding(str) when it does not raise.
EmbedOne(text) == Vec(text)

\* ------------------------------------------- ChunkEmbeddingGenerator
\* The values of ret.
NoRet == [kind |-> "none", val |-> <<>>]
Returned(v) == [kind |-> "value", val |-> v]
Raised == [kind |-> "raise", val |-> <<>>]

\* _load_chunks: Chunk(content = text, metadata = the chunk's place).  The
\* metadata (file_path, start_line, end_line, symbols) is abstracted to the
\* chunk's position in the chunk file, which makes every metadata distinct.
ChunkSeqs ==
    UNION { { [i \in 1..n |-> [content |-> c[i], metadata |-> i]] :
                c \in [1..n -> Texts] } : n \in 0..MaxChunks }

\* An activation record of _get_batch_embeddings(texts).  off is a history
\* field: the number of chunks of self.chunks before texts[1].
Frame(texts, off) ==
    [texts |-> texts, off |-> off, at |-> "try",
     left_embeddings |-> <<>>, embeddings |-> <<>>]

\* Mutant: the middle is rounded up.
Mid_Ceil(texts) == (Len(texts) + 1) \div 2

\* Mutant: one text is split off at a time.
Mid_PeelsOne(texts) == 1

\* mid = len(texts) // 2
Mid(texts) == Len(texts) \div 2

\* left = texts[:mid]
Left(texts) == Slice(texts, 0, Mid(texts))

\* right = texts[mid:]
Right(texts) == Slice(texts, Mid(texts), Len(texts))

\* Mutant: the halves are put back in the wrong order.
Concat_Swapped(left_embeddings, right_embeddings) ==
    right_embeddings \o left_embeddings

\* return left_embeddings + right_embeddings
Concat(left_embeddings, right_embeddings) == left_embeddings \o right_embeddings

\* Mutant: the batch is handed over one chunk late.
BatchFull_Late(bc, size) == Len(bc) > size

\* if len(batch_chunks) == batch_size
BatchFull(bc, size) == Len(bc) = size

\* Mutant: a batch of several texts is split even when its call succeeded.
AfterBatchCall_SplitsOnSuccess(ok, texts) ==
    IF Len(texts) > 1 THEN "split"
    ELSE IF ok THEN "return" ELSE "single"

\* Mutant: a failing batch is never split, every text is retried alone.
AfterBatchCall_NoSplit(ok, texts) ==
    IF ok THEN "return" ELSE "single"

\* What _get_batch_embeddings does after get_openai_embedding(texts):
\* return the result, or (except Exception) split, or fall back to single.
AfterBatchCall(ok, texts) ==
    IF ok THEN "return"
    ELSE IF Len(texts) > 1 THEN "split" ELSE "single"

\* Mutant: the single call is not guarded, its exception propagates.
AfterSingleCall_NoCatch(ok, text) ==
    IF ok THEN Returned(EmbedOne(text)) ELSE Raised

\* Mutant: the single call's result is dropped.
AfterSingleCall_AlwaysNone(ok, text) == Returned(None)

\* What the single fallback appends after get_openai_embedding(text):
\* the embedding, or (except Exception) None.
AfterSingleCall(ok, text) ==
    IF ok THEN Returned(EmbedOne(text)) ELSE Returned(None)

\* Mutant: the chunks whose embedding failed get no record.
RECURSIVE ZipRecords_DropFailed(_, _)
ZipRecords_DropFailed(batch, embs) ==
    IF batch = <<>> \/ embs = <<>> THEN <<>>
    ELSE IF Head(embs) = None
         THEN ZipRecords_DropFailed(Tail(batch), Tail(embs))
         ELSE <<[content |-> Head(batch).content,
                 metadata |-> Head(batch).metadata,
                 embedding |-> Head(embs)]>>
              \o ZipRecords_DropFailed(Tail(batch), Tail(embs))

\* _process_batch's loop: one record per pair of zip(batch_chunks, embeddings).
ZipRecords(batch, embs) ==
    [i \in 1..Min(Len(batch), Len(embs)) |->
        [content |-> batch[i].content,
         metadata |-> batch[i].metadata,
         embedding |-> embs[i]]]

\* texts = [chunk.content for chunk in batch_chunks]
BatchTexts(batch) == [i \in 1..Len(batch) |-> batch[i].content]

\* passed = sum(1 for emb in self.embeddings if emb["embedding"] is not None)
CountPassed(embs) ==
    Cardinality({i \in 1..Len(embs) : embs[i].embedding # None})

Top == stack[Len(stack)]
Pop == SubSeq(stack, 1, Len(stack) - 1)
SetTop(f) == [stack EXCEPT ![Len(stack)] = f]

InitEmbedIdle ==
    /\ chunks = <<>>
    /\ embeddings = <<>>
    /\ batch_size = 0
    /\ pc = "idle"
    /\ idx = 1
    /\ batch_chunks = <<>>
    /\ batch_no = 1
    /\ stack = <<>>
    /\ ret = NoRet
    /\ output_file = <<>>
    /\ saves = 0
    /\ passed = -1
    /\ failed = -1
    /\ calls = <<>>
    /\ batches = <<>>

InitChunkIdle ==
    /\ file_text = <<>>
    /\ file_metadata = <<>>
    /\ gen_chunks = <<>>
    /\ gen_symbols_text = <<>>
    /\ gen_i = 1
    /\ gen_pc = "idle"

InitVisIdle ==
    /\ vis_name = <<>>
    /\ vis_result = [by |-> "nobody", visibility |-> "none"]

\* No file is there and no run has been started.
Absent == [kind |-> "absent", val |-> <<>>]

InitRunIdle ==
    /\ repo_is_dir = FALSE
    /\ repo_files = {}
    /\ bad_files = {}
    /\ entry = "none"
    /\ mc_pc = "idle"
    /\ mc_files = <<>>
    /\ mc_i = 1
    /\ mc_metadata = <<>>
    /\ mc_readmes = <<>>
    /\ mc_processed = <<>>
    /\ metadata_file = Absent
    /\ write_log = <<>>
    /\ or_pc = "idle"
    /\ or_raised = "none"
    /\ or_file_metadatas = [kind |-> "list", val |-> <<>>]
    /\ or_files = <<>>
    /\ or_i = 1
    /\ or_chunks = <<>>
    /\ api_pc = "idle"
    /\ walk_results = <<>>

InitIndexIdle ==
    /\ ix_pc = "idle"
    /\ ix_file = <<>>
    /\ ix_loaded = [texts |-> <<>>, embeddings |-> <<>>, metadatas |-> <<>>]
    /\ ix_handed = <<>>

InitQueryIdle ==
    /\ qp_pc = "idle"
    /\ qp_user_query = ""
    /\ qp_response = [kind |-> "none", items |-> <<>>]
    /\ qp_variants = <<>>
    /\ qp_i = 1
    /\ qp_results = {}

\* No exception, no HTTP answer.
NoException == [type |-> "none", message |-> <<>>, status_code |-> 0,
                error_code |-> "none"]

InitLateIdle(component) ==
    /\ called_again = FALSE
    /\ IF component = "batch" THEN TRUE
       ELSE /\ pb_pc = "idle"
            /\ pb_batch_chunks = <<>>
            /\ pb_response = <<>>
            /\ pb_result = <<>>
            /\ pb_records = <<>>
    /\ IF component = "url" THEN TRUE
       ELSE /\ vu_owner = <<>>
            /\ vu_repo = <<>>
            /\ vu_i = 1
            /\ vu_results = <<>>
    /\ IF component = "download" THEN TRUE
       ELSE /\ dl_pc = "idle"
            /\ dl_url = <<>>
            /\ dl_disk = [target |-> FALSE, zip |-> FALSE, temp |-> FALSE]
            /\ dl_cause = "none"
            /\ dl_raised = NoException
            /\ dl_response = NoException

\* Every component but the one named is idle.
IdleExcept(component) ==
    /\ IF component = "embed" THEN TRUE ELSE InitEmbedIdle
    /\ IF component = "chunk" THEN TRUE ELSE InitChunkIdle
    /\ IF component = "vis" THEN TRUE ELSE InitVisIdle
    /\ IF component = "run" THEN TRUE ELSE InitRunIdle
    /\ IF component = "index" THEN TRUE ELSE InitIndexIdle
    /\ IF component = "query" THEN TRUE ELSE InitQueryIdle
    /\ InitLateIdle(component)

\* __init__: the chunks are loaded, self.embeddings = [].
Init ==
    /\ chunks \in ChunkSeqs
    /\ embeddings = <<>>
    /\ batch_size = 0
    /\ pc = "new"
    /\ idx = 1
    /\ batch_chunks = <<>>
    /\ batch_no = 1
    /\ stack = <<>>
    /\ ret = NoRet
    /\ output_file = <<>>
    /\ saves = 0
    /\ passed = -1
    /\ failed = -1
    /\ calls = <<>>
    /\ batches = <<>>
    /\ IdleExcept("embed")

\* generate_embeddings(batch_size): entry.
GenerateEmbeddings ==
    /\ pc = "new"
    /\ \E b \in 1..MaxBatch : batch_size' = b
    /\ batch_chunks' = <<>>
    /\ batch_no' = 1
    /\ idx' = 1
    /\ pc' = "loop"
    /\ UNCHANGED <<chunks, embeddings, stack, ret, output_file, saves, passed,
                   failed, calls, batches, chunkVars, pipeVars>>

\* One turn of `for chunk in self.chunks`: append, and enter _process_batch
\* when the batch is full.
LoopAppend ==
    /\ pc = "loop"
    /\ idx <= Len(chunks)
    /\ LET bc == Append(batch_chunks, chunks[idx])
       IN  /\ batch_chunks' = bc
           /\ idx' = idx + 1
           /\ IF BatchFull(bc, batch_size)
              THEN /\ pc' = "batch"
                   /\ stack' = <<Frame(BatchTexts(bc), idx - Len(bc))>>
                   /\ batches' = Append(batches, bc)
              ELSE UNCHANGED <<pc, stack, batches>>
    /\ UNCHANGED <<chunks, embeddings, batch_size, batch_no, ret, output_file,
                   saves, passed, failed, calls, chunkVars, pipeVars>>

\* After the loop: `if batch_chunks: self._process_batch(...)`.
LoopExit ==
    /\ pc = "loop"
    /\ idx > Len(chunks)
    /\ IF batch_chunks # <<>>
       THEN /\ pc' = "tail"
            /\ stack' = <<Frame(BatchTexts(batch_chunks),
                                Len(chunks) - Len(batch_chunks))>>
            /\ batches' = Append(batches, batch_chunks)
       ELSE /\ pc' = "save"
            /\ UNCHANGED <<stack, batches>>
    /\ UNCHANGED <<chunks, embeddings, batch_size, idx, batch_chunks, batch_no,
                   ret, output_file, saves, passed, failed, calls, chunkVars, pipeVars>>

\* _get_batch_embeddings: `result = get_openai_embedding(texts)` and what
\* follows it up to the next call.
BatchCall ==
    /\ stack # <<>>
    /\ ret = NoRet
    /\ Top.at = "try"
    /\ \E ok \in BOOLEAN :
         LET texts == Top.texts
             what == AfterBatchCall(ok, texts)
         IN  /\ calls' = Append(calls, [texts |-> texts, form |-> "list",
                                        ok |-> ok, off |-> Top.off])
             /\ CASE what = "return" ->
                       /\ ret' = Returned(EmbedList(texts))
                       /\ stack' = Pop
                  [] what = "split" ->
                       /\ ret' = NoRet
                       /\ stack' = Append(SetTop([Top EXCEPT !.at = "left"]),
                                          Frame(Left(texts), Top.off))
                  [] what = "single" ->
                       IF Len(texts) = 0
                       THEN /\ ret' = Returned(<<>>)
                            /\ stack' = Pop
                       ELSE /\ ret' = NoRet
                            /\ stack' = SetTop([Top EXCEPT !.at = "single"])
                  [] OTHER ->
                       \* the exception leaves _get_batch_embeddings
                       /\ ret' = Raised
                       /\ stack' = Pop
    /\ UNCHANGED <<chunks, embeddings, batch_size, pc, idx, batch_chunks,
                   batch_no, output_file, saves, passed, failed, batches,
                   chunkVars, pipeVars>>

\* The single fallback: `embedding = get_openai_embedding(text)` for the
\* next text of the loop, and the return after the last one.
SingleCall ==
    /\ stack # <<>>
    /\ ret = NoRet
    /\ Top.at = "single"
    /\ \E ok \in BOOLEAN :
         LET text == Top.texts[Len(Top.embeddings) + 1]
             got == AfterSingleCall(ok, text)
             embs == Append(Top.embeddings, got.val)
         IN  /\ calls' = Append(calls, [texts |-> <<text>>, form |-> "single",
                                        ok |-> ok,
                                        off |-> Top.off + Len(Top.embeddings)])
             /\ IF got.kind = "raise"
                THEN /\ ret' = Raised
                     /\ stack' = Pop
                ELSE IF Len(embs) = Len(Top.texts)
                THEN /\ ret' = Returned(embs)
                     /\ stack' = Pop
                ELSE /\ ret' = NoRet
                     /\ stack' = SetTop([Top EXCEPT !.embeddings = embs])
    /\ UNCHANGED <<chunks, embeddings, batch_size, pc, idx, batch_chunks,
                   batch_no, output_file, saves, passed, failed, batches,
                   chunkVars, pipeVars>>

\* Mutant: after a failure in the left half the right half is given up.
ReturnLeft_GivesUpOnRight ==
    /\ stack # <<>>
    /\ ret # NoRet
    /\ Top.at = "left"
    /\ LET le == IF ret.kind = "raise"
                 THEN Repeat(None, Len(Left(Top.texts)))
                 ELSE ret.val
       IN  IF \E i \in DOMAIN le : le[i] = None
           THEN /\ stack' = SetTop([Top EXCEPT !.at = "right",
                                               !.left_embeddings = le])
                /\ ret' = Returned(Repeat(None, Len(Right(Top.texts))))
           ELSE /\ stack' = Append(SetTop([Top EXCEPT !.at = "right",
                                                      !.left_embeddings = le]),
                                   Frame(Right(Top.texts),
                                         Top.off + Len(Left(Top.texts))))
                /\ ret' = NoRet
    /\ UNCHANGED <<chunks, embeddings, batch_size, pc, idx, batch_chunks,
                   batch_no, output_file, saves, passed, failed, calls,
                   batches, chunkVars, pipeVars>>

\* The recursive call on `left` is over: left_embeddings is its result, or
\* [None] * len(left) when it raised; then the call on `right` starts.
ReturnLeft ==
    /\ stack # <<>>
    /\ ret # NoRet
    /\ Top.at = "left"
    /\ LET le == IF ret.kind = "raise"
                 THEN Repeat(None, Len(Left(Top.texts)))
                 ELSE ret.val
       IN  stack' = Append(SetTop([Top EXCEPT !.at = "right",
                                              !.left_embeddings = le]),
                           Frame(Right(Top.texts),
                                 Top.off + Len(Left(Top.texts))))
    /\ ret' = NoRet
    /\ UNCHANGED <<chunks, embeddings, batch_size, pc, idx, batch_chunks,
                   batch_no, output_file, saves, passed, failed, calls,
                   batches, chunkVars, pipeVars>>

\* The recursive call on `right` is over: return left + right.
ReturnRight ==
    /\ stack # <<>>
    /\ ret # NoRet
    /\ Top.at = "right"
    /\ LET re == IF ret.kind = "raise"
                 THEN Repeat(None, Len(Right(Top.texts)))
                 ELSE ret.val
       IN  ret' = Returned(Concat(Top.left_embeddings, re))
    /\ stack' = Pop
    /\ UNCHANGED <<chunks, embeddings, batch_size, pc, idx, batch_chunks,
                   batch_no, output_file, saves, passed, failed, calls,
                   batches, chunkVars, pipeVars>>

\* Mutant: the embedding file is written after every batch.
ProcessBatch_SavesEachBatch ==
    /\ pc \in {"batch", "tail"}
    /\ stack = <<>>
    /\ ret # NoRet
    /\ ret' = NoRet
    /\ embeddings' = embeddings \o ZipRecords(batch_chunks, ret.val)
    /\ output_file' = embeddings'
    /\ saves' = saves + 1
    /\ IF pc = "batch"
       THEN /\ batch_chunks' = <<>>
            /\ batch_no' = batch_no + 1
            /\ pc' = "loop"
       ELSE /\ pc' = "save"
            /\ UNCHANGED <<batch_chunks, batch_no>>
    /\ UNCHANGED <<chunks, batch_size, idx, stack, passed, failed, calls,
                   batches, chunkVars, pipeVars>>

\* _process_batch after _get_batch_embeddings has returned: the records are
\* appended; then generate_embeddings goes on (or the exception leaves it).
ProcessBatch ==
    /\ pc \in {"batch", "tail"}
    /\ stack = <<>>
    /\ ret # NoRet
    /\ ret' = NoRet
    /\ IF ret.kind = "raise"
       THEN /\ pc' = "raised"
            /\ UNCHANGED <<embeddings, batch_chunks, batch_no>>
       ELSE /\ embeddings' = embeddings \o ZipRecords(batch_chunks, ret.val)
            /\ IF pc = "batch"
               THEN /\ batch_chunks' = <<>>
                    /\ batch_no' = batch_no + 1
                    /\ pc' = "loop"
               ELSE /\ pc' = "save"
                    /\ UNCHANGED <<batch_chunks, batch_no>>
    /\ UNCHANGED <<chunks, batch_size, idx, stack, output_file, saves, passed,
                   failed, calls, batches, chunkVars, pipeVars>>

\* _save_embeddings: json.dump(self.embeddings) to self.output_file.
SaveEmbeddings ==
    /\ pc = "save"
    /\ output_file' = embeddings
    /\ saves' = saves + 1
    /\ pc' = "count"
    /\ UNCHANGED <<chunks, embeddings, batch_size, idx, batch_chunks, batch_no,
                   stack, ret, passed, failed, calls, batches, chunkVars, pipeVars>>

\* The counts logged at the end of generate_embeddings.
ReportCounts ==
    /\ pc = "count"
    /\ passed' = CountPassed(embeddings)
    /\ failed' = Len(chunks) - CountPassed(embeddings)
    /\ pc' = "done"
    /\ UNCHANGED <<chunks, embeddings, batch_size, idx, batch_chunks, batch_no,
                   stack, ret, output_file, saves, calls, batches, chunkVars, pipeVars>>

Next ==
    \/ GenerateEmbeddings
    \/ LoopAppend
    \/ LoopExit
    \/ BatchCall
    \/ SingleCall
    \/ ReturnLeft
    \/ ReturnRight
    \/ ProcessBatch
    \/ SaveEmbeddings
    \/ ReportCounts

Spec == Init /\ [][Next]_vars

\* ------------------------------------------ claims on the embedding stage
\* generate_embeddings has processed every batch.
AllBatchesDone == pc \in {"save", "count", "done"}

\* The top-level batch k has been processed (_process_batch has returned).
Completed(k) ==
    /\ k \in DOMAIN batches
    /\ \/ k < Len(batches)
       \/ pc \in {"loop", "save", "count", "done"}

\* The number of chunks before the top-level batch k.
RECURSIVE BatchStart(_)
BatchStart(k) == IF k <= 1 THEN 0 ELSE BatchStart(k - 1) + Len(batches[k - 1])

\* The service calls made while the top-level batch k was processed.
CallsOf(k) ==
    { j \in DOMAIN calls :
        /\ calls[j].off >= BatchStart(k)
        /\ calls[j].off < BatchStart(k) + Len(batches[k]) }

\* The service calls that submitted the text of chunk i alone.
AloneCalls(i) ==
    { j \in DOMAIN calls : Len(calls[j].texts) = 1 /\ calls[j].off = i - 1 }

Range(f) == { f[x] : x \in DOMAIN f }

\* C1: when one call of generate_embeddings has processed its batches, there
\* are exactly n records for the n chunks, record i carrying the content and
\* the metadata of chunk i, whatever calls of the service raised; the file
\* written holds these records.
C1_OneRecordPerChunk ==
    /\ AllBatchesDone =>
         /\ Len(embeddings) = Len(chunks)
         /\ \A i \in 1..Len(chunks) :
              /\ embeddings[i].content = chunks[i].content
              /\ embeddings[i].metadata = chunks[i].metadata
    /\ pc = "done" => output_file = embeddings

C1_Witness ==
    /\ pc = "done"
    /\ Len(chunks) = 3
    /\ batch_size = 2
    /\ \E j \in DOMAIN calls : ~calls[j].ok
    /\ embeddings[1].embedding = None
    /\ embeddings[2].embedding # None
    /\ embeddings[3].embedding = None

C3_NoPropagation ==
    /\ pc # "raised"
    /\ ret.kind # "raise"
    /\ \A i \in DOMAIN embeddings :
         embeddings[i].embedding = None =>
            \E j \in AloneCalls(i) :
                /\ ~calls[j].ok
                /\ calls[j].texts = <<chunks[i].content>>

C3_Witness ==
    /\ pc = "done"
    /\ \E j \in DOMAIN calls : Len(calls[j].texts) = 3 /\ ~calls[j].ok
    /\ \E i \in DOMAIN embeddings : embeddings[i].embedding = None
    /\ \E i \in DOMAIN embeddings : embeddings[i].embedding # None

ConsistentWith(bad) ==
    \A j \in DOMAIN calls :
        calls[j].ok <=> (Range(calls[j].texts) \cap bad = {})

\* C5: when a service call fails exactly when it holds one of a fixed set of
\* bad texts, the list _get_batch_embeddings returns for a batch holds at
\* position i the vector of text i when it is not bad and null when it is.
C5_BadTextsIsolated ==
    \A bad \in SUBSET Texts :
        (ConsistentWith(bad) /\ stack = <<>> /\ ret.kind = "value") =>
            ret.val = [i \in 1..Len(batch_chunks) |->
                         IF batch_chunks[i].content \in bad
                         THEN None ELSE Vec(batch_chunks[i].content)]

\* The scenario of C5: a batch of 4 whose last two texts are bad.
C5_Witness ==
    /\ stack = <<>>
    /\ ret.kind = "value"
    /\ ConsistentWith({"b"})
    /\ BatchTexts(batch_chunks) = <<"a", "a", "b", "b">>
    /\ ~calls[1].ok
    /\ ret.val = <<Vec("a"), Vec("a"), None, None>>

\* C6: the batches handed to _process_batch are the consecutive slices of
\* the chunk sequence, each of batch_size chunks but possibly the last, which
\* has n mod batch_size chunks when that is not zero; once the loop is over
\* every chunk is in exactly one batch.
C6_ConsecutiveBatches ==
    LET n == Len(chunks)
        b == batch_size
    IN  /\ \A k \in DOMAIN batches :
              /\ batches[k] = SubSeq(chunks, (k - 1) * b + 1, Min(k * b, n))
              /\ Len(batches[k]) >= 1
              /\ k < Len(batches) => Len(batches[k]) = b
        /\ AllBatchesDone =>
              /\ Len(batches) = (n + b - 1) \div b
              /\ n > 0 => Len(batches[Len(batches)]) =
                            IF n % b = 0 THEN b ELSE n % b
              /\ \A i \in 1..n :
                    \E k \in DOMAIN batches :
                        /\ i \in (BatchStart(k) + 1)..(BatchStart(k) + Len(batches[k]))
                        /\ batches[k][i - BatchStart(k)] = chunks[i]

C6_Witness ==
    /\ pc = "done"
    /\ Len(chunks) = 4
    /\ batch_size = 3
    /\ Len(batches) = 2
    /\ Len(batches[2]) = 1

\* C7: in one call of generate_embeddings the embedding file is written
\* exactly once, after every batch has been processed, and the reported
\* counts are passed = the number of records with a non-null embedding and
\* passed + failed = the number of chunks.
C7_SavedOnceAtTheEnd ==
    /\ saves <= 1
    /\ saves = 1 =>
         /\ pc \in {"count", "done"}
         /\ output_file = embeddings
         /\ idx > Len(chunks)
         /\ \A k \in DOMAIN batches : Completed(k)
         /\ \A i \in 1..Len(chunks) : i <= Len(output_file)
    /\ pc = "done" =>
         /\ saves = 1
         /\ passed = Cardinality({ i \in DOMAIN output_file :
                                     output_file[i].embedding # None })
         /\ passed + failed = Len(chunks)
    /\ pc # "done" => passed = -1 /\ failed = -1

C7_Witness ==
    /\ pc = "done"
    /\ saves = 1
    /\ Len(batches) = 2
    /\ passed = 2
    /\ failed = 1

\* ------------------------------------------------------- ChunkGenerator
\* A file's text is a sequence of characters: "a" is a letter, "NL" the
\* newline "\n" (open(..., 'r') has already translated "\r\n" and "\r"),
\* "FF" the form feed "\x0c", one of the characters str.splitlines() takes for
\* a line boundary and file.readlines() does not.
Alphabet == {"a", "NL", "FF"}

FileTexts == UNION { [1..n -> Alphabet] : n \in 0..MaxFileLen }

\* f.readlines(): the text cut after every "\n", line ends kept.
RECURSIVE ReadLinesAcc(_, _, _)
ReadLinesAcc(text, cur, acc) ==
    IF text = <<>>
    THEN IF cur = <<>> THEN acc ELSE Append(acc, cur)
    ELSE IF Head(text) = "NL"
         THEN ReadLinesAcc(Tail(text), <<>>, Append(acc, Append(cur, "NL")))
         ELSE ReadLinesAcc(Tail(text), Append(cur, Head(text)), acc)

ReadLines(text) == ReadLinesAcc(text, <<>>, <<>>)

\* str.splitlines(): the text cut at every line boundary ("\n", "\x0c", ...),
\* boundaries dropped, no empty last line.
RECURSIVE SplitLinesAcc(_, _, _)
SplitLinesAcc(text, cur, acc) ==
    IF text = <<>>
    THEN IF cur = <<>> THEN acc ELSE Append(acc, cur)
    ELSE IF Head(text) \in {"NL", "FF"}
         THEN SplitLinesAcc(Tail(text), <<>>, Append(acc, cur))
         ELSE SplitLinesAcc(Tail(text), Append(cur, Head(text)), acc)

SplitLines(text) == SplitLinesAcc(text, <<>>, <<>>)

\* ''.join(lines)
RECURSIVE Join(_)
Join(lines) == IF lines = <<>> THEN <<>> ELSE Head(lines) \o Join(Tail(lines))

\* ASTExtractor.__init__: self.num_lines = len(self.code.splitlines()), the
\* num_lines of the file's FileRecord.
NumLines(code) == Len(SplitLines(code))

\* extract_symbols: re.findall(r'\b[a-zA-Z_][a-zA-Z0-9_]*\b', text) as a set.
\* In this alphabet the identifiers are the maximal runs of letters.
RECURSIVE SymbolsAcc(_, _, _)
SymbolsAcc(text, cur, acc) ==
    IF text = <<>>
    THEN IF cur = <<>> THEN acc ELSE acc \cup {cur}
    ELSE IF Head(text) = "a"
         THEN SymbolsAcc(Tail(text), Append(cur, "a"), acc)
         ELSE SymbolsAcc(Tail(text), <<>>,
                         IF cur = <<>> THEN acc ELSE acc \cup {cur})

ExtractSymbols(text) == SymbolsAcc(text, <<>>, {})

\* Mutant: start is taken for a 0-indexed line number.
GetChunkText_ZeroIndexed(text, start, end) ==
    Join(Slice(ReadLines(text), start, end))

\* get_chunk_text(start, end): ''.join(lines[start-1:end])
GetChunkText(text, start, end) == Join(Slice(ReadLines(text), start - 1, end))

\* Mutant: the lines are counted by the newlines of the text.
WholeFileEndLine_CountNewlines(text) ==
    Cardinality({ i \in DOMAIN text : text[i] = "NL" })

\* The whole-file chunk's end_line: len(text.splitlines())
WholeFileEndLine(text) == Len(SplitLines(text))

\* The chunk generate_chunks builds for a file without entities.
WholeFileChunk(text) ==
    [file_path |-> "f.py", start_line |-> 1,
     end_line |-> WholeFileEndLine(text),
     symbols |-> ExtractSymbols(text), text |-> text]

\* Mutant: the chunk's line range is shifted to 0-indexed lines.
EntityChunk_Shifted(text, item) ==
    LET chunk_text == GetChunkText(text, item.start_line, item.end_line)
    IN  [file_path |-> "f.py", start_line |-> item.start_line - 1,
         end_line |-> item.end_line - 1,
         symbols |-> ExtractSymbols(chunk_text), text |-> chunk_text]

\* The chunk generate_chunks builds for one entity of the file.
EntityChunk(text, item) ==
    LET chunk_text == GetChunkText(text, item.start_line, item.end_line)
    IN  [file_path |-> "f.py", start_line |-> item.start_line,
         end_line |-> item.end_line,
         symbols |-> ExtractSymbols(chunk_text), text |-> chunk_text]

\* The entities the Structural Extractor may report: 1-indexed inclusive line
\* ranges, start_line <= end_line.
Entities ==
    { x \in [start_line : 1..MaxLine, end_line : 1..MaxLine] :
        x.start_line <= x.end_line }

\* ASTExtractor.extract: entities.sort(key = start_line)
SortedByStart(es) ==
    \A i \in 1..Len(es), j \in 1..Len(es) :
        i < j => es[i].start_line <= es[j].start_line

EntityLists ==
    { es \in UNION { [1..m -> Entities] : m \in 0..MaxEntities } :
        SortedByStart(es) }

\* ChunkGenerator.__init__(file_path, file_metadata): self.chunks = [].
InitChunk ==
    /\ file_text \in FileTexts
    /\ file_metadata \in EntityLists
    /\ gen_chunks = <<>>
    /\ gen_symbols_text = <<>>
    /\ gen_i = 1
    /\ gen_pc = "new"
    /\ IdleExcept("chunk")

\* generate_chunks, `if not self.file_metadata`: the whole file is one chunk.
GenWholeFile ==
    /\ gen_pc = "new"
    /\ file_metadata = <<>>
    /\ gen_chunks' = Append(gen_chunks, WholeFileChunk(file_text))
    /\ gen_symbols_text' = Append(gen_symbols_text, file_text)
    /\ gen_pc' = "done"
    /\ UNCHANGED <<file_text, file_metadata, gen_i, embedVars, pipeVars>>

\* generate_chunks, one turn of `for item in self.file_metadata`.
GenEntityChunk ==
    /\ gen_pc = "new"
    /\ file_metadata # <<>>
    /\ gen_i <= Len(file_metadata)
    /\ LET item == file_metadata[gen_i]
       IN  /\ gen_chunks' = Append(gen_chunks, EntityChunk(file_text, item))
           /\ gen_symbols_text' =
                Append(gen_symbols_text,
                       GetChunkText(file_text, item.start_line, item.end_line))
    /\ gen_i' = gen_i + 1
    /\ UNCHANGED <<file_text, file_metadata, gen_pc, embedVars, pipeVars>>

\* generate_chunks, after the loop: return self.chunks.
GenReturn ==
    /\ gen_pc = "new"
    /\ file_metadata # <<>>
    /\ gen_i > Len(file_metadata)
    /\ gen_pc' = "done"
    /\ UNCHANGED <<file_text, file_metadata, gen_chunks, gen_symbols_text,
                   gen_i, embedVars, pipeVars>>

NextChunk ==
    \/ GenWholeFile
    \/ GenEntityChunk
    \/ GenReturn

SpecChunk == InitChunk /\ [][NextChunk]_vars

\* ------------------------------------------ claims on the Chunk Generator
\* The concatenation of the file's lines first..last (1-indexed, inclusive),
\* a line being what ends with a newline or with the file.
LinesText(text, first, last) ==
    LET lines == ReadLines(text)
        hi == Min(last, Len(lines))
    IN  IF first > hi THEN <<>>
        ELSE Join([k \in 1..(hi - first + 1) |-> lines[first + k - 1]])

C9_OneChunkPerEntity ==
    (gen_pc = "done" /\ file_metadata # <<>>) =>
        /\ Len(gen_chunks) = Len(file_metadata)
        /\ \A j \in DOMAIN file_metadata :
             /\ gen_chunks[j].start_line = file_metadata[j].start_line
             /\ gen_chunks[j].end_line = file_metadata[j].end_line

C9_Witness ==
    /\ gen_pc = "done"
    /\ Len(file_metadata) = 2
    /\ Len(gen_chunks) = 2
    /\ gen_chunks[1].start_line = 1 /\ gen_chunks[1].end_line = 1
    /\ gen_chunks[2].start_line = 2 /\ gen_chunks[2].end_line = 3

\* C10: for every generated chunk the concatenation of the file's lines
\* start_line..end_line is the chunk's text, and that text is the one its
\* symbols were computed from.
C10_RoundTrip ==
    \A j \in DOMAIN gen_chunks :
        /\ LinesText(file_text, gen_chunks[j].start_line, gen_chunks[j].end_line)
             = gen_chunks[j].text
        /\ gen_symbols_text[j] = gen_chunks[j].text
        /\ gen_chunks[j].symbols = ExtractSymbols(gen_chunks[j].text)

C10_Witness ==
    /\ gen_pc = "done"
    /\ file_text = <<"a", "NL", "a", "NL">>
    /\ Len(gen_chunks) = 1
    /\ gen_chunks[1].start_line = 2
    /\ gen_chunks[1].end_line = 2
    /\ gen_chunks[1].text = <<"a", "NL">>

\* ---------------------------------------------------------- get_visibility
\* An entity name is a sequence of characters: "_" is the underscore, "a"
\* any other character of an identifier.
NameChars == {"_", "a"}

Names == UNION { [1..n -> NameChars] : n \in 0..MaxNameLen }

\* str.startswith / str.endswith on a sequence of characters.
StartsWith(name, prefix) ==
    /\ Len(name) >= Len(prefix)
    /\ SubSeq(name, 1, Len(prefix)) = prefix

EndsWith(name, suffix) ==
    /\ Len(name) >= Len(suffix)
    /\ SubSeq(name, Len(name) - Len(suffix) + 1, Len(name)) = suffix

\* FunctionExtractor.get_visibility(name)
FunctionGetVisibility(name) ==
    IF StartsWith(name, <<"_", "_">>) /\ ~EndsWith(name, <<"_", "_">>)
    THEN "private"
    ELSE IF StartsWith(name, <<"_">>) THEN "private"
    ELSE "public"

\* ClassExtractor.get_visibility(name)
ClassGetVisibility(name) ==
    IF StartsWith(name, <<"_", "_">>) /\ ~EndsWith(name, <<"_", "_">>)
    THEN "private"
    ELSE IF StartsWith(name, <<"_">>) THEN "private"
    ELSE "public"

\* An entity name reaches an extractor.
InitVis ==
    /\ vis_name \in Names
    /\ vis_result = [by |-> "nobody", visibility |-> "none"]
    /\ IdleExcept("vis")

\* FunctionExtractor.extract: "visibility": get_visibility(name)
ExtractFunctionVisibility ==
    /\ vis_result.by = "nobody"
    /\ vis_result' = [by |-> "function",
                      visibility |-> FunctionGetVisibility(vis_name)]
    /\ UNCHANGED <<vis_name, ixVars, qpVars, lateVars, embedVars, chunkVars, runVars>>

\* ClassExtractor.extract: "visibility": get_visibility(name)
ExtractClassVisibility ==
    /\ vis_result.by = "nobody"
    /\ vis_result' = [by |-> "class",
                      visibility |-> ClassGetVisibility(vis_name)]
    /\ UNCHANGED <<vis_name, ixVars, qpVars, lateVars, embedVars, chunkVars, runVars>>

NextVis ==
    \/ ExtractFunctionVisibility
    \/ ExtractClassVisibility

SpecVis == InitVis /\ [][NextVis]_vars

\* The classification of C17: dunder names public, other names with two
\* leading underscores private, names with exactly one leading underscore
\* private, every other name public.
ClaimedVisibility(name) ==
    IF StartsWith(name, <<"_", "_">>)
    THEN IF EndsWith(name, <<"_", "_">>) THEN "public" ELSE "private"
    ELSE IF StartsWith(name, <<"_">>) THEN "private"
    ELSE "public"

\* C17: get_visibility returns for every name the visibility of the
\* classification: __init__ public, __secret private, _helper private, run
\* public.
C17_Visibility ==
    vis_result.by # "nobody" =>
        vis_result.visibility = ClaimedVisibility(vis_name)

\* ------------------------------------------------- the repository on disk
\* A file name is <<stem, suffix>>, suffix what Path(name).suffix returns.
\* The names a repository may hold:
FileNames ==
    { <<"README", ".md">>,   \* a readme with text
      <<"readme", ".txt">>,  \* a readme holding only white space
      <<"readme", ".py">>,   \* an empty Python file called readme.py
      <<"main", ".py">>,     \* a Python file with two functions
      <<"util", ".py">>,     \* a Python file without any entity
      <<"notes", ".md">>,    \* documentation that is not a readme
      <<"data", ".bin">> }   \* a file the Walker does not list

\* str.lower() on the stems of FileNames.
Lower(stem) == IF stem = "README" THEN "readme" ELSE stem

\* What f.read() returns for the file, a sequence of characters ("SP" is a
\* blank).
ContentOf(name) ==
    CASE name = <<"README", ".md">> -> <<"a", "NL">>
      [] name = <<"readme", ".txt">> -> <<"SP", "NL">>
      [] name = <<"readme", ".py">> -> <<>>
      [] name = <<"main", ".py">> -> <<"a", "NL", "a">>
      [] name = <<"util", ".py">> -> <<"a">>
      [] name = <<"notes", ".md">> -> <<"a">>
      [] OTHER -> <<"a">>

\* The entities the Structural Extractor finds in the file.
EntitiesOf(name) ==
    IF name = <<"main", ".py">>
    THEN <<[start_line |-> 1, end_line |-> 1],
           [start_line |-> 2, end_line |-> 2]>>
    ELSE <<>>

\* The repository's directory and Path(root) / file, os.path.join(root, file).
RepoPath == "repo"

PathJoin(root, name) == [dir |-> root, name |-> name]

\* os.path.basename(file_path)
BaseName(file_path) == file_path.name

\* Path(file_path).suffix
Suffix(file_path) == file_path.name[2]

\* Every order in which the entries of S may be listed.
Perms(S) ==
    { p \in [1..Cardinality(S) -> S] :
        \A i, j \in 1..Cardinality(S) : i # j => p[i] # p[j] }

Repos == { S \in SUBSET FileNames : Cardinality(S) <= MaxFiles }

\* SUPPORTED_EXTENSIONS
SUPPORTED_EXTENSIONS ==
    { ".c", ".h", ".cpp", ".hpp", ".java", ".py", ".pyi", ".js", ".mjs",
      ".cjs", ".ts", ".tsx", ".go", ".rb", ".gemspec", ".md", ".rst", ".txt" }

\* traverse_repo, the loop over os.walk: the files of a listing that have a
\* supported extension, as paths, in the order of the listing.
RECURSIVE SupportedFiles(_)
SupportedFiles(listing) ==
    IF listing = <<>> THEN <<>>
    ELSE LET file_path == PathJoin(RepoPath, Head(listing))
         IN  (IF Suffix(file_path) \in SUPPORTED_EXTENSIONS
              THEN <<file_path>> ELSE <<>>)
             \o SupportedFiles(Tail(listing))

\* The directory mapping of a repository without sub-directories: {}.
RepoStructure == [dirs |-> {}]

\* traverse_repo(repo_path): ValueError for a path that is no directory, else
\* the supported files in the order in which os.walk lists the entries, any
\* order the operating system may choose.
TraverseRepoResults ==
    IF ~repo_is_dir THEN {[raised |-> TRUE, files |-> <<>>]}
    ELSE { [raised |-> FALSE, files |-> SupportedFiles(listing)] :
             listing \in Perms(repo_files) }

\* ------------------------------------------------------ MetadataCollector
\* readme_pattern.match(file_name) for re.compile(r'(?i)readme(\.md|\.txt|\.rst)?$'):
\* the whole name is "readme" in any case, alone or with one of three suffixes.
ReadmePatternMatch(file_name) ==
    /\ Lower(file_name[1]) = "readme"
    /\ file_name[2] \in {"", ".md", ".txt", ".rst"}

\* str.strip() on a file's content: leading and trailing white space removed.
RECURSIVE LStrip(_)
LStrip(text) ==
    IF text # <<>> /\ Head(text) \in {"SP", "NL", "FF"}
    THEN LStrip(Tail(text)) ELSE text

RECURSIVE RStrip(_)
RStrip(text) ==
    IF text # <<>> /\ text[Len(text)] \in {"SP", "NL", "FF"}
    THEN RStrip(SubSeq(text, 1, Len(text) - 1)) ELSE text

Strip(text) == LStrip(RStrip(text))

\* ASTExtractor(file_path, "python").extract() for a file that parses.
FileRecord(file_path) ==
    [file_path |-> file_path, language |-> "python",
     num_lines |-> NumLines(ContentOf(BaseName(file_path))),
     entities |-> EntitiesOf(BaseName(file_path))]

\* Mutant: the extractor's exception is not caught.
ProcessFile_NoCatch(file_path, bad) ==
    IF Suffix(file_path) = ".py"
    THEN IF BaseName(file_path) \in bad
         THEN [raised |-> TRUE, result |-> <<>>]
         ELSE [raised |-> FALSE, result |-> <<FileRecord(file_path)>>]
    ELSE [raised |-> FALSE, result |-> <<>>]

\* process_file(file_path): the FileRecord of a ".py" file, None for any other
\* file and for a file whose extraction raises. An Optional result is a
\* sequence: <<>> is None, <<v>> the value v.
ProcessFile(file_path, bad) ==
    IF Suffix(file_path) = ".py"
    THEN IF BaseName(file_path) \in bad
         THEN [raised |-> FALSE, result |-> <<>>]
         ELSE [raised |-> FALSE, result |-> <<FileRecord(file_path)>>]
    ELSE [raised |-> FALSE, result |-> <<>>]

\* extract_readme_content(file_path): the labelled content of a readable file
\* that holds more than white space, None otherwise.
ExtractReadmeContent(file_path, bad) ==
    IF BaseName(file_path) \in bad THEN <<>>
    ELSE LET content == Strip(ContentOf(BaseName(file_path)))
         IN  IF content # <<>>
             THEN <<[file_path |-> file_path, content |-> content]>>
             ELSE <<>>

\* Mutant: the else is gone, a readme goes on to process_file.
CollectFile_NoElse(file_path, bad) ==
    LET result == ProcessFile(file_path, bad)
    IN  [readme |-> IF ReadmePatternMatch(BaseName(file_path))
                    THEN ExtractReadmeContent(file_path, bad) ELSE <<>>,
         processed |-> <<file_path>>,
         metadata |-> result.result,
         raised |-> result.raised]

\* One turn of `for file_path in files`: what the file adds to
\* readme_contents and to metadata.
CollectFile(file_path, bad) ==
    IF ReadmePatternMatch(BaseName(file_path))
    THEN [readme |-> ExtractReadmeContent(file_path, bad),
          processed |-> <<>>, metadata |-> <<>>, raised |-> FALSE]
    ELSE LET result == ProcessFile(file_path, bad)
         IN  [readme |-> <<>>, processed |-> <<file_path>>,
              metadata |-> result.result, raised |-> result.raised]

\* The value collect_metadata_sequential returns.
Response ==
    [metadata |-> mc_metadata, readme_content |-> mc_readmes,
     repo_structure |-> RepoStructure]

\* A JSON file holding a list, and one holding an object.
JsonList(list) == [kind |-> "list", val |-> list]

JsonDict(dict) == [kind |-> "dict", val |-> dict]

\* The files whose reading or parsing may raise: readmes and Python files.
MayRaise(names) ==
    { name \in names : ReadmePatternMatch(name) \/ name[2] = ".py" }

\* The metadata lists a ChunkOrchestrator may be given: the FileRecords of
\* some Python files, on disk or not, in any order.
MetadataLists ==
    UNION { { [i \in 1..Len(p) |-> FileRecord(PathJoin(RepoPath, p[i]))] :
                p \in Perms(S) } :
            S \in SUBSET { name \in FileNames : name[2] = ".py" } }

\* MetadataCollector.__init__ and ChunkOrchestrator.__init__: a repository is
\* on disk and one of MetadataCollector.run, index_repository_helper and
\* ChunkOrchestrator.run is called.
InitRun ==
    /\ entry \in {"collector_run", "index_repo", "orchestrator_run"}
    /\ repo_is_dir \in IF entry = "index_repo" THEN {TRUE} ELSE BOOLEAN
    /\ repo_files \in IF repo_is_dir THEN Repos ELSE {{}}
    /\ bad_files \in IF entry = "orchestrator_run" THEN {{}}
                     ELSE SUBSET MayRaise(repo_files)
    /\ mc_pc = IF entry = "collector_run" THEN "new" ELSE "idle"
    /\ mc_files = <<>>
    /\ mc_i = 1
    /\ mc_metadata = <<>>
    /\ mc_readmes = <<>>
    /\ mc_processed = <<>>
    /\ metadata_file \in IF entry = "orchestrator_run"
                         THEN {Absent} \cup { JsonList(l) : l \in MetadataLists }
                         ELSE {Absent}
    /\ write_log = <<>>
    /\ or_pc = IF entry = "orchestrator_run" THEN "new" ELSE "idle"
    /\ or_raised = "none"
    /\ or_file_metadatas = JsonList(<<>>)
    /\ or_files = <<>>
    /\ or_i = 1
    /\ or_chunks = <<>>
    /\ api_pc = IF entry = "index_repo" THEN "start" ELSE "idle"
    /\ walk_results = <<>>
    /\ IdleExcept("run")

\* collect_metadata_sequential, line 72: files, repo_structure =
\* traverse_repo(self.repo_path); its ValueError is not caught.
TraverseRepo ==
    /\ mc_pc = "new"
    /\ \E result \in TraverseRepoResults :
         /\ mc_files' = result.files
         /\ mc_pc' = IF result.raised THEN "raised" ELSE "loop"
    /\ UNCHANGED <<sideVars, lateVars, embedVars, chunkVars, orVars, api_pc, walk_results,
                   fsVars, entry, mc_i, mc_metadata, mc_readmes, mc_processed,
                   metadata_file, write_log>>

\* collect_metadata_sequential, one turn of `for file_path in files`.
CollectStep ==
    /\ mc_pc = "loop"
    /\ mc_i <= Len(mc_files)
    /\ LET out == CollectFile(mc_files[mc_i], bad_files)
       IN  /\ mc_readmes' = mc_readmes \o out.readme
           /\ mc_processed' = mc_processed \o out.processed
           /\ mc_metadata' = mc_metadata \o out.metadata
           /\ mc_pc' = IF out.raised THEN "raised" ELSE "loop"
    /\ mc_i' = mc_i + 1
    /\ UNCHANGED <<sideVars, lateVars, embedVars, chunkVars, orVars, api_pc, walk_results,
                   fsVars, entry, mc_files, metadata_file, write_log>>

\* collect_metadata_sequential, after the loop: return the three outputs.
CollectReturn ==
    /\ mc_pc = "loop"
    /\ mc_i > Len(mc_files)
    /\ mc_pc' = "collected"
    /\ UNCHANGED <<sideVars, lateVars, embedVars, chunkVars, orVars, api_pc, walk_results,
                   fsVars, entry, mc_files, mc_i, mc_metadata, mc_readmes,
                   mc_processed, metadata_file, write_log>>

\* MetadataCollector.run: self.save_metadata(response['metadata'])
RunSaveMetadata ==
    /\ entry = "collector_run"
    /\ mc_pc = "collected"
    /\ metadata_file' = JsonList(Response.metadata)
    /\ write_log' = Append(write_log, "metadata")
    /\ mc_pc' = "saved_metadata"
    /\ UNCHANGED <<sideVars, lateVars, embedVars, chunkVars, orVars, api_pc, walk_results,
                   fsVars, entry, mc_files, mc_i, mc_metadata, mc_readmes,
                   mc_processed>>

\* MetadataCollector.run: self.save_readme_content(response['readme_content'])
RunSaveReadmeContent ==
    /\ entry = "collector_run"
    /\ mc_pc = "saved_metadata"
    /\ write_log' = Append(write_log, "readme_content")
    /\ mc_pc' = "saved_readme"
    /\ UNCHANGED <<sideVars, lateVars, embedVars, chunkVars, orVars, api_pc, walk_results,
                   fsVars, entry, mc_files, mc_i, mc_metadata, mc_readmes,
                   mc_processed, metadata_file>>

\* MetadataCollector.run: self.save_repo_structure(response['repo_structure'])
RunSaveRepoStructure ==
    /\ entry = "collector_run"
    /\ mc_pc = "saved_readme"
    /\ write_log' = Append(write_log, "repo_structure")
    /\ mc_pc' = "done"
    /\ UNCHANGED <<sideVars, lateVars, embedVars, chunkVars, orVars, api_pc, walk_results,
                   fsVars, entry, mc_files, mc_i, mc_metadata, mc_readmes,
                   mc_processed, metadata_file>>

\* ------------------------------------------------------ ChunkOrchestrator
\* for ... in os.walk(self.repo_path) for file in files if
\* file.endswith('.py'): the Python files of a listing, as paths.
RECURSIVE PythonFiles(_)
PythonFiles(listing) ==
    IF listing = <<>> THEN <<>>
    ELSE (IF Head(listing)[2] = ".py"
          THEN <<PathJoin(RepoPath, Head(listing))>> ELSE <<>>)
         \o PythonFiles(Tail(listing))

\* metadata_map.get(file_path) for the map {meta.get('file_path'): meta for
\* meta in self.file_metadatas}: the last record of the list with this path,
\* None (<<>>) without one.
RECURSIVE MetadataMapGet(_, _)
MetadataMapGet(file_metadatas, file_path) ==
    IF file_metadatas = <<>> THEN <<>>
    ELSE LET meta == file_metadatas[Len(file_metadatas)]
         IN  IF meta.file_path = file_path THEN <<meta>>
             ELSE MetadataMapGet(SubSeq(file_metadatas, 1,
                                        Len(file_metadatas) - 1), file_path)

\* ChunkGenerator(file_path, entities).generate_chunks()
GenerateChunks(file_path, entities) ==
    LET text == ContentOf(BaseName(file_path))
    IN  IF entities = <<>>
        THEN <<[WholeFileChunk(text) EXCEPT !.file_path = file_path]>>
        ELSE [i \in 1..Len(entities) |->
                [EntityChunk(text, entities[i]) EXCEPT !.file_path = file_path]]

\* Mutant: a file without a FileRecord is chunked as a file without entities.
FileChunks_Synthesized(file_metadatas, file_path) ==
    LET found == MetadataMapGet(file_metadatas, file_path)
    IN  IF found = <<>> THEN GenerateChunks(file_path, <<>>)
        ELSE GenerateChunks(file_path, found[1].entities)

\* One turn of `for file_path in files`: the chunks the file adds.
FileChunks(file_metadatas, file_path) ==
    LET found == MetadataMapGet(file_metadatas, file_path)
    IN  IF found = <<>> THEN <<>>
        ELSE GenerateChunks(file_path, found[1].entities)

\* Mutant: a missing metadata file is read as an empty list.
CollectFileMetadatas_MissingIsEmpty ==
    /\ or_pc = "new"
    /\ or_file_metadatas' =
         IF metadata_file.kind = "absent" THEN JsonList(<<>>) ELSE metadata_file
    /\ or_pc' = "loaded"
    /\ UNCHANGED <<or_raised, or_files, or_i, or_chunks, fsVars, mcVars, api_pc,
                   walk_results, sideVars, lateVars, embedVars, chunkVars>>

\* run, collect_file_metadatas: FileNotFoundError without a metadata file,
\* else self.file_metadatas = json.load(f).
CollectFileMetadatas ==
    /\ or_pc = "new"
    /\ IF metadata_file.kind = "absent"
       THEN /\ or_pc' = "raised"
            /\ or_raised' = "FileNotFoundError"
            /\ UNCHANGED or_file_metadatas
       ELSE /\ or_file_metadatas' = metadata_file
            /\ or_pc' = "loaded"
            /\ UNCHANGED or_raised
    /\ UNCHANGED <<or_files, or_i, or_chunks, fsVars, mcVars, api_pc,
                   walk_results, sideVars, lateVars, embedVars, chunkVars>>

\* generate_all_chunks, lines 38-42: the re-walk of the repository (os.walk
\* yields nothing for a path that is no directory), then the path-keyed map.
\* Iterating a JSON object yields its keys, and str has no get: AttributeError.
WalkAndMap ==
    /\ or_pc = "loaded"
    /\ \E listing \in Perms(repo_files) : or_files' = PythonFiles(listing)
    /\ IF or_file_metadatas.kind = "dict"
       THEN /\ or_pc' = "raised"
            /\ or_raised' = "AttributeError"
       ELSE /\ or_pc' = "loop"
            /\ UNCHANGED or_raised
    /\ UNCHANGED <<or_file_metadatas, or_i, or_chunks, fsVars, mcVars, api_pc,
                   walk_results, sideVars, lateVars, embedVars, chunkVars>>

\* Mutant: a file's chunks are put in front of the chunks gathered so far.
ChunkStep_Prepends ==
    /\ or_pc = "loop"
    /\ or_i <= Len(or_files)
    /\ or_chunks' = FileChunks(or_file_metadatas.val, or_files[or_i]) \o or_chunks
    /\ or_i' = or_i + 1
    /\ UNCHANGED <<or_pc, or_raised, or_file_metadatas, or_files, fsVars,
                   mcVars, api_pc, walk_results, sideVars, lateVars, embedVars, chunkVars>>

\* generate_all_chunks, one turn of `for file_path in files`.
ChunkStep ==
    /\ or_pc = "loop"
    /\ or_i <= Len(or_files)
    /\ or_chunks' = or_chunks \o FileChunks(or_file_metadatas.val, or_files[or_i])
    /\ or_i' = or_i + 1
    /\ UNCHANGED <<or_pc, or_raised, or_file_metadatas, or_files, fsVars,
                   mcVars, api_pc, walk_results, sideVars, lateVars, embedVars, chunkVars>>

\* run, after the loop: save_chunks() writes the chunk file.
SaveChunks ==
    /\ or_pc = "loop"
    /\ or_i > Len(or_files)
    /\ write_log' = Append(write_log, "chunks")
    /\ or_pc' = "done"
    /\ UNCHANGED <<or_raised, or_file_metadatas, or_files, or_i, or_chunks,
                   fsVars, entry, mc_pc, mc_files, mc_i, mc_metadata,
                   mc_readmes, mc_processed, metadata_file, api_pc,
                   walk_results, sideVars, lateVars, embedVars, chunkVars>>

\* ------------------------------------------------ index_repository_helper
\* download_repository: the repository is on disk, or RepositoryError.
ApiDownload ==
    /\ api_pc = "start"
    /\ \E ok \in BOOLEAN :
         IF ok THEN /\ api_pc' = "collecting"
                    /\ mc_pc' = "new"
         ELSE /\ api_pc' = "repository_error"
              /\ UNCHANGED mc_pc
    /\ UNCHANGED <<fsVars, entry, mc_files, mc_i, mc_metadata, mc_readmes,
                   mc_processed, metadata_file, write_log, orVars,
                   walk_results, sideVars, lateVars, embedVars, chunkVars>>

\* Lines 112-118: file_metadatas is the whole value returned by
\* collect_metadata_sequential, save_metadata(file_metadatas) writes it, and
\* ChunkOrchestrator(local_path, metadata_path, repo_name).run() starts.
ApiSaveMetadata ==
    /\ api_pc = "collecting"
    /\ mc_pc = "collected"
    /\ metadata_file' = JsonDict(Response)
    /\ write_log' = Append(write_log, "metadata")
    /\ mc_pc' = "done"
    /\ api_pc' = "chunking"
    /\ or_pc' = "new"
    /\ UNCHANGED <<fsVars, entry, mc_files, mc_i, mc_metadata, mc_readmes,
                   mc_processed, or_raised, or_file_metadatas, or_files, or_i,
                   or_chunks, walk_results, sideVars, lateVars, embedVars, chunkVars>>

\* The end of the try block: an exception of a stage is turned into
\* handle_unexpected_error's HTTP 500; after the chunk file is written the
\* embeddings are generated and the success response is returned.
ApiFinish ==
    /\ \/ api_pc = "collecting" /\ mc_pc = "raised"
       \/ api_pc = "chunking" /\ or_pc \in {"raised", "done"}
    /\ api_pc' = IF mc_pc = "raised" \/ or_pc = "raised"
                 THEN "error_500" ELSE "success"
    /\ UNCHANGED <<fsVars, mcVars, orVars, walk_results, sideVars, lateVars, embedVars,
                   chunkVars>>

NextRun ==
    \/ TraverseRepo
    \/ CollectStep
    \/ CollectReturn
    \/ RunSaveMetadata
    \/ RunSaveReadmeContent
    \/ RunSaveRepoStructure
    \/ CollectFileMetadatas
    \/ WalkAndMap
    \/ ChunkStep
    \/ SaveChunks
    \/ ApiDownload
    \/ ApiSaveMetadata
    \/ ApiFinish

SpecRun == InitRun /\ [][NextRun]_vars

\* ------------------------------- claims on the orchestrator and collector
\* The paths of the FileRecords of a metadata list.
PathsOf(records) == { records[i].file_path : i \in DOMAIN records }

\* How often an artifact has been written.
Writes(artifact) ==
    Cardinality({ i \in DOMAIN write_log : write_log[i] = artifact })

\* C11: without a metadata file ChunkOrchestrator.run raises
\* FileNotFoundError before any file is walked or chunked: no chunk is
\* generated and no chunk file is written.
C11_MissingMetadataIsFatal ==
    (or_pc \notin {"idle", "new"} /\ metadata_file.kind = "absent") =>
        /\ or_pc = "raised"
        /\ or_raised = "FileNotFoundError"
        /\ or_files = <<>>
        /\ or_i = 1
        /\ or_chunks = <<>>
        /\ Writes("chunks") = 0

C11_Witness ==
    /\ or_pc = "raised"
    /\ metadata_file.kind = "absent"
    /\ <<"main", ".py">> \in repo_files

\* C12: every chunk of generate_all_chunks belongs to a file that the
\* re-walk found and that has a FileRecord in the metadata list loaded from
\* the metadata file; a file without a record and a record without a file
\* add no chunk and raise nothing, and every file that has both is chunked.
C12_ChunksOnlyForMatchedFiles ==
    (or_pc \in {"loop", "done", "raised"} /\ metadata_file.kind = "list") =>
        /\ or_pc # "raised"
        /\ \A c \in Range(or_chunks) :
              /\ c.file_path \in Range(or_files)
              /\ BaseName(c.file_path) \in repo_files
              /\ c.file_path \in PathsOf(metadata_file.val)
        /\ or_pc = "done" =>
              { c.file_path : c \in Range(or_chunks) } =
                  Range(or_files) \cap PathsOf(metadata_file.val)

C12_Witness ==
    /\ or_pc = "done"
    /\ or_chunks # <<>>
    /\ Range(or_files) \ PathsOf(metadata_file.val) # {}
    /\ PathsOf(metadata_file.val) \ Range(or_files) # {}

\* C13: in collect_metadata_sequential a file whose name matches the readme
\* pattern is never handed to process_file and has no FileRecord in
\* metadata, and a file whose name does not match has no snippet in the
\* readme contents; no file has more than one snippet or record.
C13_ReadmeOrCode ==
    /\ \A i \in DOMAIN mc_files :
          IF ReadmePatternMatch(BaseName(mc_files[i]))
          THEN /\ mc_files[i] \notin Range(mc_processed)
               /\ mc_files[i] \notin PathsOf(mc_metadata)
          ELSE mc_files[i] \notin PathsOf(mc_readmes)
    /\ Cardinality(PathsOf(mc_readmes)) = Len(mc_readmes)
    /\ Cardinality(PathsOf(mc_metadata)) = Len(mc_metadata)

C13_Witness ==
    /\ mc_pc = "collected"
    /\ {<<"README", ".md">>, <<"main", ".py">>} \subseteq repo_files
    /\ PathsOf(mc_readmes) = {PathJoin(RepoPath, <<"README", ".md">>)}
    /\ PathJoin(RepoPath, <<"main", ".py">>) \in PathsOf(mc_metadata)

\* The FileRecords of the files of a list that are Python files, are no
\* readmes and do not fail, in the order of the list.
RECURSIVE RecordsOfGoodFiles(_, _)
RecordsOfGoodFiles(files, bad) ==
    IF files = <<>> THEN <<>>
    ELSE (IF /\ Suffix(Head(files)) = ".py"
             /\ ~ReadmePatternMatch(BaseName(Head(files)))
             /\ BaseName(Head(files)) \notin bad
          THEN <<FileRecord(Head(files))>> ELSE <<>>)
         \o RecordsOfGoodFiles(Tail(files), bad)

\* C14: whatever files fail to parse, collect_metadata_sequential does not
\* raise on a repository directory, and metadata holds exactly the
\* FileRecords of the other Python non-readme files, in Walker order.
C14_FailuresIsolated ==
    /\ repo_is_dir => mc_pc # "raised"
    /\ mc_pc \in {"loop", "collected"} =>
          mc_metadata =
              RecordsOfGoodFiles(SubSeq(mc_files, 1, mc_i - 1), bad_files)
    /\ mc_pc = "collected" => mc_i = Len(mc_files) + 1

C14_Witness ==
    /\ mc_pc = "collected"
    /\ <<"main", ".py">> \in bad_files
    /\ Len(mc_metadata) = 2

\* C15: every run that reaches the end of the metadata stage, through
\* MetadataCollector.run or index_repository_helper, has written the
\* FileRecord list, the documentation corpus and the directory tree, each
\* exactly once and after the traversal.
C15_ThreeOutputsPersisted ==
    /\ mc_pc = "done" =>
          /\ Writes("metadata") = 1
          /\ Writes("readme_content") = 1
          /\ Writes("repo_structure") = 1
    /\ mc_pc \in {"new", "loop"} => write_log = <<>>

\* C16: in index_repository_helper the metadata file the Collector stage
\* wrote and the Chunk Orchestrator loads is a list of FileRecords, and the
\* orchestrator's path-keyed lookup goes through.
C16_MetadataFileIsAList ==
    (entry = "index_repo" /\ or_pc # "idle") =>
        /\ metadata_file.kind = "list"
        /\ or_pc # "raised"

\* ------------------------------------------ traverse_repo, run after run
\* A repository is on disk, nothing else happens.
InitWalk ==
    /\ repo_is_dir \in BOOLEAN
    /\ repo_files \in IF repo_is_dir THEN Repos ELSE {{}}
    /\ bad_files = {}
    /\ entry = "traverse_repo"
    /\ mc_pc = "idle"
    /\ mc_files = <<>>
    /\ mc_i = 1
    /\ mc_metadata = <<>>
    /\ mc_readmes = <<>>
    /\ mc_processed = <<>>
    /\ metadata_file = Absent
    /\ write_log = <<>>
    /\ or_pc = "idle"
    /\ or_raised = "none"
    /\ or_file_metadatas = JsonList(<<>>)
    /\ or_files = <<>>
    /\ or_i = 1
    /\ or_chunks = <<>>
    /\ api_pc = "idle"
    /\ walk_results = <<>>
    /\ IdleExcept("run")

\* One more run of traverse_repo(repo_path) on the unchanged repository.
TraverseRepoAgain ==
    /\ entry = "traverse_repo"
    /\ Len(walk_results) < MaxWalks
    /\ \E result \in TraverseRepoResults :
         walk_results' = Append(walk_results, result)
    /\ UNCHANGED <<fsVars, mcVars, orVars, api_pc, sideVars, lateVars, embedVars,
                   chunkVars>>

NextWalk == TraverseRepoAgain

SpecWalk == InitWalk /\ [][NextWalk]_vars

\* C20: on an unchanged repository every run of traverse_repo returns the
\* same sequence of file paths, however the operating system lists the
\* entries of a directory.
C20_SameOrderEveryRun ==
    \A i, j \in DOMAIN walk_results : walk_results[i] = walk_results[j]

\* ------------------------------------------------------------ FAISSIndexer
\* The embedding files: lists of EmbeddingRecords, the embedding a vector or
\* null.
EmbeddingRecords ==
    UNION { { [content |-> t, metadata |-> 0, embedding |-> e] :
                e \in {Vec(t), None} } : t \in Texts }

EmbeddingFiles == UNION { [1..n -> EmbeddingRecords] : n \in 0..MaxRecords }

\* A list np.array cannot turn into a matrix: vectors and None mixed.
Inhomogeneous(embs) ==
    /\ \E i \in DOMAIN embs : embs[i] = None
    /\ \E i \in DOMAIN embs : embs[i] # None

\* FAISSIndexer.__init__: an embedding file is there to be indexed.
InitIndex ==
    /\ ix_pc = "new"
    /\ ix_file \in EmbeddingFiles
    /\ ix_loaded = [texts |-> <<>>, embeddings |-> <<>>, metadatas |-> <<>>]
    /\ ix_handed = <<>>
    /\ IdleExcept("index")

\* load_data: the three columns of the file, no record left out.  np.array
\* keeps a list of vectors and a list of None as they are; a list that mixes
\* both raises ValueError (NumPy 1.24 and later) or becomes an array of
\* objects (earlier versions).
LoadData ==
    /\ ix_pc = "new"
    /\ LET embs == [i \in DOMAIN ix_file |-> ix_file[i].embedding]
       IN  \E numpy_raises \in IF Inhomogeneous(embs) THEN BOOLEAN ELSE {FALSE} :
             IF numpy_raises
             THEN /\ ix_pc' = "raised"
                  /\ UNCHANGED ix_loaded
             ELSE /\ ix_pc' = "loaded"
                  /\ ix_loaded' =
                       [texts |-> [i \in DOMAIN ix_file |-> ix_file[i].content],
                        embeddings |-> embs,
                        metadatas |-> [i \in DOMAIN ix_file |-> ix_file[i].metadata]]
    /\ UNCHANGED <<ix_file, ix_handed, visVars, qpVars, runVars, lateVars, embedVars,
                   chunkVars>>

\* create_index: FAISS.from_embeddings(list(zip(texts, embeddings)), ...,
\* metadatas = metadatas).
CreateIndex ==
    /\ ix_pc = "loaded"
    /\ ix_handed' =
         [i \in 1..Min(Len(ix_loaded.texts), Len(ix_loaded.embeddings)) |->
            [text |-> ix_loaded.texts[i],
             vector |-> ix_loaded.embeddings[i],
             metadata |-> ix_loaded.metadatas[i]]]
    /\ ix_pc' = "indexed"
    /\ UNCHANGED <<ix_file, ix_loaded, visVars, qpVars, runVars, lateVars, embedVars,
                   chunkVars>>

NextIndex ==
    \/ LoadData
    \/ CreateIndex

SpecIndex == InitIndex /\ [][NextIndex]_vars

\* The triples of the records of a file that have an embedding.
RECURSIVE TriplesWithVector(_)
TriplesWithVector(records) ==
    IF records = <<>> THEN <<>>
    ELSE (IF Head(records).embedding # None
          THEN <<[text |-> Head(records).content,
                  vector |-> Head(records).embedding,
                  metadata |-> Head(records).metadata]>>
          ELSE <<>>)
         \o TriplesWithVector(Tail(records))

\* C18: the triples handed to the index are those of the records of the
\* embedding file that have a vector: a record with a null embedding is left
\* out and nothing stands in for its vector.
C18_NullEmbeddingsExcluded ==
    ix_pc = "indexed" => ix_handed = TriplesWithVector(ix_file)

\* ---------------------------------------------------------- QueryProcessor
\* self.round1_queries_count
Round1QueriesCount == 6

\* The query strings.
Queries == {"q", "r"}

\* What gemini_service.get_response does: it raises, or it returns a text.
\* A text is told by what json.loads makes of it: "invalid" is no JSON at all,
\* "object" any JSON value that is no array, "array" an array of strings.
Responses ==
    { [kind |-> k, items |-> <<>>] : k \in {"raise", "invalid", "object"} }
    \cup { [kind |-> "array", items |-> items] :
             items \in UNION { [1..n -> Queries] : n \in 0..MaxResponseLen } }

\* list.insert(0, x)
Insert0(list, x) == <<x>> \o list

\* Mutant: an array of any length is taken for the query variants.
FirstRoundReturn_AnyLength(user_query, response) ==
    IF response.kind = "array" THEN Insert0(response.items, user_query)
    ELSE <<>>

\* process_first_round, lines 72-83: json.loads(response), the variants with
\* the user's query put first when it is a list of round1_queries_count
\* items; a text that is no JSON and the ValueError of line 80 are caught and
\* [] is returned.
FirstRoundReturn(user_query, response) ==
    IF response.kind \in {"invalid", "object"} THEN <<>>
    ELSE IF Len(response.items) = Round1QueriesCount
         THEN Insert0(response.items, user_query)
         ELSE <<>>

\* QueryProcessor.process_query(user_query, ...) is called.
InitQuery ==
    /\ qp_pc = "new"
    /\ qp_user_query \in Queries
    /\ qp_response \in Responses
    /\ qp_variants = <<>>
    /\ qp_i = 1
    /\ qp_results = {}
    /\ IdleExcept("query")

\* process_query, line 121: process_first_round.  get_response is called
\* outside the try: what it raises leaves process_query.
ProcessFirstRound ==
    /\ qp_pc = "new"
    /\ IF qp_response.kind = "raise"
       THEN /\ qp_pc' = "raised"
            /\ UNCHANGED qp_variants
       ELSE /\ qp_variants' = FirstRoundReturn(qp_user_query, qp_response)
            /\ qp_pc' = "retrieve"
    /\ UNCHANGED <<qp_user_query, qp_response, qp_i, qp_results, visVars,
                   ixVars, runVars, lateVars, embedVars, chunkVars>>

\* _retrieve_results, one turn of `for query in query_variants`: the search
\* of the index answers or raises, and what it raises is caught.
RetrieveStep ==
    /\ qp_pc = "retrieve"
    /\ qp_i <= Len(qp_variants)
    /\ \E search_ok \in BOOLEAN :
         qp_results' = IF search_ok THEN qp_results \cup {qp_variants[qp_i]}
                       ELSE qp_results
    /\ qp_i' = qp_i + 1
    /\ UNCHANGED <<qp_pc, qp_user_query, qp_response, qp_variants, visVars,
                   ixVars, runVars, lateVars, embedVars, chunkVars>>

\* process_query, line 130: return retrieved_results.
RetrieveReturn ==
    /\ qp_pc = "retrieve"
    /\ qp_i > Len(qp_variants)
    /\ qp_pc' = "done"
    /\ UNCHANGED <<qp_user_query, qp_response, qp_variants, qp_i, qp_results,
                   visVars, ixVars, runVars, lateVars, embedVars, chunkVars>>

NextQuery ==
    \/ ProcessFirstRound
    \/ RetrieveStep
    \/ RetrieveReturn

SpecQuery == InitQuery /\ [][NextQuery]_vars

\* The service returned a text that is no JSON array of the expected number
\* of queries.
NoExpansion ==
    \/ qp_response.kind \in {"invalid", "object"}
    \/ /\ qp_response.kind = "array"
       /\ Len(qp_response.items) # Round1QueriesCount

\* C19: when the text of the Language Model Service is no JSON array of the
\* expected number of queries, process_first_round returns the empty list
\* and process_query goes on to its end without raising, with no result.
C19_NoExpansionNoAbort ==
    NoExpansion =>
        /\ qp_pc # "raised"
        /\ qp_variants = <<>>
        /\ qp_results = {}
        /\ qp_pc = "retrieve" => qp_i = 1

C19_Witness ==
    /\ qp_pc = "done"
    /\ qp_response.kind = "array"
    /\ Len(qp_response.items) = Round1QueriesCount - 1
    /\ qp_variants = <<>>

\* ------------------------------------------- claims on the batch bisection
\* The activation records of _get_batch_embeddings that were called by
\* another one: stack[i] is a half of stack[i - 1].
Halves == { i \in DOMAIN stack : i > 1 }

\* C22 as stated: the first half has ceil(n/2) texts, the second floor(n/2).
C22_Claimed_CeilThenFloor ==
    \A i \in Halves :
        LET n == Len(stack[i - 1].texts)
        IN  /\ stack[i - 1].at = "left" => Len(stack[i].texts) = (n + 1) \div 2
            /\ stack[i - 1].at = "right" => Len(stack[i].texts) = n \div 2

\* C22: a failed batch of n > 1 texts is split into two contiguous
\* sub-batches in the original order, the first of floor(n/2) texts and the
\* second of the ceil(n/2) texts that remain.
C22_FloorThenCeil ==
    \A i \in Halves :
        LET whole == stack[i - 1]
            n == Len(whole.texts)
        IN  /\ n > 1
            /\ whole.at \in {"left", "right"}
            /\ whole.at = "left" =>
                 /\ stack[i].texts = SubSeq(whole.texts, 1, n \div 2)
                 /\ stack[i].off = whole.off
            /\ whole.at = "right" =>
                 /\ stack[i].texts = SubSeq(whole.texts, n \div 2 + 1, n)
                 /\ Len(stack[i].texts) = n - n \div 2
                 /\ stack[i].off = whole.off + n \div 2

C22_Witness ==
    /\ Len(stack) = 2
    /\ Len(stack[1].texts) = 3
    /\ stack[1].at = "right"
    /\ Len(stack[2].texts) = 2

\* The outcomes, in order, of the service calls made so far on texts that
\* all lie among the chunks lo + 1 .. hi.
RECURSIVE OutcomesFrom(_, _, _)
OutcomesFrom(j, lo, hi) ==
    IF j > Len(calls) THEN <<>>
    ELSE (IF calls[j].off >= lo /\ calls[j].off + Len(calls[j].texts) <= hi
          THEN <<calls[j].ok>> ELSE <<>>)
         \o OutcomesFrom(j + 1, lo, hi)

\* What a batch of texts gets from a given sequence of call outcomes, and the
\* outcomes left over; "unattempted" when the outcomes run out.
RECURSIVE Replay(_, _)
Replay(texts, outs) ==
    IF outs = <<>> THEN [val |-> <<"unattempted">>, rest |-> <<>>]
    ELSE IF Head(outs) THEN [val |-> EmbedList(texts), rest |-> Tail(outs)]
    ELSE IF Len(texts) > 1
         THEN LET l == Replay(Left(texts), Tail(outs))
                  r == Replay(Right(texts), l.rest)
              IN  [val |-> l.val \o r.val, rest |-> r.rest]
    ELSE IF Tail(outs) = <<>> THEN [val |-> <<"unattempted">>, rest |-> <<>>]
    ELSE [val |-> <<IF Head(Tail(outs)) THEN EmbedOne(texts[1]) ELSE None>>,
          rest |-> Tail(Tail(outs))]

\* C23: after a split both halves are attempted, and what a half returns is
\* a function of the outcomes of the service calls made on texts of that
\* half alone: no outcome of a call on the other half enters it.
C23_HalvesIndependent ==
    \A i \in DOMAIN stack :
        stack[i].at = "right" =>
            LET f == stack[i]
                mid == f.off + Len(Left(f.texts))
                l == Replay(Left(f.texts), OutcomesFrom(1, f.off, mid))
                r == Replay(Right(f.texts),
                            OutcomesFrom(1, mid, f.off + Len(f.texts)))
            IN  /\ f.left_embeddings = l.val
                /\ l.rest = <<>>
                /\ (i = Len(stack) /\ ret # NoRet) =>
                      /\ ret.kind = "value"
                      /\ ret.val = r.val
                      /\ r.rest = <<>>

C23_Witness ==
    /\ stack # <<>>
    /\ Top.at = "right"
    /\ ret.kind = "value"
    /\ Len(Top.texts) = 4
    /\ Top.left_embeddings = <<None, None>>
    /\ \A i \in DOMAIN ret.val : ret.val[i] # None

\* The chunks (by position in self.chunks) whose text call j submits.
Submitted(j) == (calls[j].off + 1)..(calls[j].off + Len(calls[j].texts))

\* Call i and the later call j submit the text of one same chunk.
Resubmits(i, j) == i < j /\ Submitted(i) \cap Submitted(j) # {}

RECURSIVE CeilLog2(_)
CeilLog2(n) == IF n <= 1 THEN 0 ELSE 1 + CeilLog2((n + 1) \div 2)

\* C25: below the top-level call on n texts _get_batch_embeddings is never
\* more than ceil(log2(n)) calls deep, and a chunk is given up (null
\* embedding) only after a call on a sub-batch holding its text alone failed.
C25_DepthBounded ==
    /\ stack # <<>> => Len(stack) - 1 <= CeilLog2(Len(stack[1].texts))
    /\ ret.kind # "raise"
    /\ \A p \in DOMAIN embeddings :
          embeddings[p].embedding = None =>
              \E j \in DOMAIN calls :
                  /\ calls[j].form = "list"
                  /\ calls[j].off = p - 1
                  /\ Len(calls[j].texts) = 1
                  /\ ~calls[j].ok

C25_Witness ==
    /\ Len(stack) = 3
    /\ Len(stack[1].texts) = 3
    /\ Len(stack[3].texts) = 1
    /\ stack[3].at = "single"

\* ------------------------------------------ the order of the chunk sequence
\* The place of a path in the re-walk.
WalkIndex(file_path) == CHOOSE i \in DOMAIN or_files : or_files[i] = file_path

\* The chunks of one file, in the order they have in self.chunks.
RECURSIVE ChunksOfFile(_, _)
ChunksOfFile(chunk_seq, file_path) ==
    IF chunk_seq = <<>> THEN <<>>
    ELSE (IF Head(chunk_seq).file_path = file_path
          THEN <<Head(chunk_seq)>> ELSE <<>>)
         \o ChunksOfFile(Tail(chunk_seq), file_path)

\* C26: in self.chunks the files follow one another in the order of the
\* re-walk, the chunks of one file are contiguous, and they are in the order
\* in which the Chunk Generator returned them.
C26_FlattenedInOrder ==
    or_pc \in {"loop", "done"} =>
        /\ \A i, j \in DOMAIN or_chunks :
              i < j => WalkIndex(or_chunks[i].file_path)
                         <= WalkIndex(or_chunks[j].file_path)
        /\ \A k \in 1..(or_i - 1) :
              LET found == MetadataMapGet(or_file_metadatas.val, or_files[k])
              IN  ChunksOfFile(or_chunks, or_files[k]) =
                     IF found = <<>> THEN <<>>
                     ELSE GenerateChunks(or_files[k], found[1].entities)

C26_Witness ==
    /\ or_pc = "done"
    /\ Len(or_files) = 3
    /\ Len(or_chunks) = 4
    /\ or_chunks[2].file_path = PathJoin(RepoPath, <<"main", ".py">>)
    /\ or_chunks[3].file_path = PathJoin(RepoPath, <<"main", ".py">>)

\* ------------------------------------------------------------------
\* _process_batch on one answer of the embedding service
\* (chunk_embedding_generator.py 74-84, openai_embedder.py 46-53)
\* ------------------------------------------------------------------

\* The largest number of items in resp_json["data"].
MaxItems == 5

\* The non-empty batches generate_embeddings hands to _process_batch.
Batches == { b \in ChunkSeqs : Len(b) \in 1..MaxBatch }

\* resp_json["data"] of an answer that get_openai_embedding returns from: a
\* list of items with an "embedding" each.  The code never compares its
\* length with the number of texts sent; an empty list raises IndexError at
\* line 52, so an answer that does not raise has at least one item.
ServiceResponses ==
    UNION { [1..k -> { [embedding |-> Vec(t)] : t \in Texts }] :
            k \in 1..MaxItems }

\* embeddings = [item["embedding"] for item in resp_json["data"]]
GetOpenaiEmbedding(data) == [i \in 1..Len(data) |-> data[i].embedding]

InitBatch ==
    /\ pb_pc = "call"
    /\ pb_batch_chunks \in Batches
    /\ pb_response \in ServiceResponses
    /\ pb_result = <<>>
    /\ pb_records = <<>>
    /\ IdleExcept("batch")

\* _get_batch_embeddings: result = get_openai_embedding(texts); return result
GetBatchEmbeddings ==
    /\ pb_pc = "call"
    /\ pb_result' = GetOpenaiEmbedding(pb_response)
    /\ pb_pc' = "returned"
    /\ UNCHANGED <<pb_batch_chunks, pb_response, pb_records, called_again,
                   urlVars, dlVars, sideVars, runVars, embedVars, chunkVars>>

\* _process_batch: for chunk, embedding in zip(batch_chunks, embeddings):
\* self.embeddings.append({...})
AppendBatchRecords ==
    /\ pb_pc = "returned"
    /\ pb_records' = ZipRecords(pb_batch_chunks, pb_result)
    /\ pb_pc' = "done"
    /\ UNCHANGED <<pb_batch_chunks, pb_response, pb_result, called_again,
                   urlVars, dlVars, sideVars, runVars, embedVars, chunkVars>>

NextBatch ==
    \/ GetBatchEmbeddings
    \/ AppendBatchRecords

SpecBatch == InitBatch /\ [][NextBatch]_vars

\* C28: once _process_batch has returned from a service answer that did not
\* raise, self.embeddings holds exactly one record per chunk of the batch,
\* record i being that of chunk i, whatever the number of vectors answered.
C28_OneRecordPerChunk ==
    pb_pc = "done" =>
        /\ Len(pb_records) = Len(pb_batch_chunks)
        /\ \A i \in 1..Len(pb_batch_chunks) :
              /\ pb_records[i].content = pb_batch_chunks[i].content
              /\ pb_records[i].metadata = pb_batch_chunks[i].metadata

\* ------------------------------------------------------------------
\* generate_embeddings called again on the same ChunkEmbeddingGenerator
\* (chunk_embedding_generator.py 26-36, 56-72)
\* ------------------------------------------------------------------

\* The largest number of loaded chunks when generate_embeddings is called
\* twice.
MaxRerunChunks == 2

\* __init__ is the only place that sets self.embeddings = [] (line 36).
InitRerun ==
    /\ Init
    /\ Len(chunks) <= MaxRerunChunks

\* A second generate_embeddings(batch_size) on the object whose first call
\* has returned: lines 57-59 start the locals afresh, self.chunks and
\* self.embeddings are what the first call left.  calls and batches are the
\* history of the running call.
GenerateEmbeddingsAgain ==
    /\ pc = "done"
    /\ ~called_again
    /\ called_again' = TRUE
    /\ \E b \in 1..MaxBatch : batch_size' = b
    /\ batch_chunks' = <<>>
    /\ batch_no' = 1
    /\ idx' = 1
    /\ calls' = <<>>
    /\ batches' = <<>>
    /\ pc' = "loop"
    /\ UNCHANGED <<chunks, embeddings, stack, ret, output_file, saves, passed,
                   failed, chunkVars, sideVars, runVars, pbVars, urlVars,
                   dlVars>>

NextRerun ==
    \/ Next
    \/ GenerateEmbeddingsAgain

SpecRerun == InitRerun /\ [][NextRerun]_vars

\* C27: whenever a call of generate_embeddings has returned, the first or a
\* repeated one, the persisted embedding sequence holds exactly one record
\* per loaded chunk, record i being that of chunk i.
C27_OneRecordPerLoadedChunk ==
    pc = "done" =>
        /\ Len(output_file) = Len(chunks)
        /\ \A i \in 1..Len(chunks) :
              /\ output_file[i].content = chunks[i].content
              /\ output_file[i].metadata = chunks[i].metadata

\* ------------------------------------------------------------------
\* validate_github_url (repository_service.py 27-61) on the URLs of
\* test_repository_service.py 21-38.  A URL is a sequence of characters.
\* ------------------------------------------------------------------

\* [a-zA-Z0-9._-], the characters of an owner or repository name (line 54).
PatternChars ==
    {"a", "b", "c", "d", "e", "f", "g", "h", "i", "j", "k", "l", "m", "n",
     "o", "p", "q", "r", "s", "t", "u", "v", "w", "x", "y", "z",
     "A", "B", "C", "D", "E", "F", "G", "H", "I", "J", "K", "L", "M", "N",
     "O", "P", "Q", "R", "S", "T", "U", "V", "W", "X", "Y", "Z",
     "0", "1", "2", "3", "4", "5", "6", "7", "8", "9", ".", "_", "-"}

\* str.replace(old, new): every occurrence, left to right, not overlapping.
RECURSIVE Replace(_, _, _)
Replace(text, old, new) ==
    IF Len(text) < Len(old) THEN text
    ELSE IF SubSeq(text, 1, Len(old)) = old
         THEN new \o Replace(SubSeq(text, Len(old) + 1, Len(text)), old, new)
         ELSE <<Head(text)>> \o Replace(Tail(text), old, new)

\* str.rstrip('/')
RECURSIVE RStripSlash(_)
RStripSlash(text) ==
    IF text # <<>> /\ text[Len(text)] = "/"
    THEN RStripSlash(SubSeq(text, 1, Len(text) - 1)) ELSE text

HttpScheme == <<"h", "t", "t", "p", ":", "/", "/">>
HttpsScheme == <<"h", "t", "t", "p", "s", ":", "/", "/">>
WwwHost == <<":", "/", "/", "w", "w", "w", ".", "g", "i", "t", "h", "u", "b", ".", "c", "o", "m">>
BareHost == <<":", "/", "/", "g", "i", "t", "h", "u", "b", ".", "c", "o", "m">>
GitSuffix == <<".", "g", "i", "t">>
PatternPrefix == <<"h", "t", "t", "p", "s", ":", "/", "/", "g", "i", "t", "h", "u", "b", ".", "c", "o", "m", "/">>

\* The positions of "/" in a sequence of characters.
Slashes(text) == { k \in 1..Len(text) : text[k] = "/" }

\* re.match(r'https://github\.com/([a-zA-Z0-9._-]+)/([a-zA-Z0-9._-]+)$', url):
\* the groups when it matches.  Neither group can hold a "/", so after the
\* prefix there is exactly one "/" with a non-empty name on each side.
PatternGroups(url) ==
    IF ~StartsWith(url, PatternPrefix) THEN [matched |-> FALSE]
    ELSE LET rest == SubSeq(url, Len(PatternPrefix) + 1, Len(url))
         IN  IF /\ Cardinality(Slashes(rest)) = 1
                /\ \A k \in 1..Len(rest) :
                      rest[k] = "/" \/ rest[k] \in PatternChars
                /\ LET k == CHOOSE j \in Slashes(rest) : TRUE
                   IN  k > 1 /\ k < Len(rest)
             THEN LET k == CHOOSE j \in Slashes(rest) : TRUE
                  IN  [matched |-> TRUE,
                       owner |-> SubSeq(rest, 1, k - 1),
                       repo |-> SubSeq(rest, k + 1, Len(rest))]
             ELSE [matched |-> FALSE]

\* What a call of validate_github_url does.
UrlReturned(owner, repo) ==
    [kind |-> "returned", owner |-> owner, repo |-> repo]
UrlRaised == [kind |-> "RepositoryError", owner |-> <<>>, repo |-> <<>>]

\* validate_github_url without the .replace('.git', '') of line 51.
ValidateGithubUrl_KeepsGitSuffix(repo_url) ==
    LET stripped == Strip(repo_url)
        schemed == IF StartsWith(stripped, HttpScheme)
                      \/ StartsWith(stripped, HttpsScheme)
                   THEN stripped ELSE HttpsScheme \o stripped
        no_www == Replace(schemed, WwwHost, BareHost)
        url == RStripSlash(no_www)
        groups == PatternGroups(url)
    IN  IF groups.matched THEN UrlReturned(groups.owner, groups.repo)
        ELSE UrlRaised

\* validate_github_url(repo_url), lines 41-61.
ValidateGithubUrl(repo_url) ==
    LET stripped == Strip(repo_url)
        schemed == IF StartsWith(stripped, HttpScheme)
                      \/ StartsWith(stripped, HttpsScheme)
                   THEN stripped ELSE HttpsScheme \o stripped
        no_www == Replace(schemed, WwwHost, BareHost)
        url == Replace(RStripSlash(no_www), GitSuffix, <<>>)
        groups == PatternGroups(url)
    IN  IF groups.matched THEN UrlReturned(groups.owner, groups.repo)
        ELSE UrlRaised

\* The owners and repository names the test URLs are spelled with: those of
\* the test (octocat, Hello-World) and others of the pattern's alphabet,
\* one of them with ".git" inside.
Owners == {<<"o", "c", "t", "o", "c", "a", "t">>, <<"a", "-", "b">>, <<"x", "_", "1">>, <<"Q">>,
           <<"d", "e", "v", ".", "o", "p", "s">>}
RepoNames == {<<"H", "e", "l", "l", "o", "-", "W", "o", "r", "l", "d">>, <<"r">>, <<"m", "y", ".", "r", "e", "p", "o">>,
              <<"a", ".", "g", "i", "t", "b">>}

\* test_urls (lines 21-28) for one owner and repository.
TestUrls(owner, repo) ==
    <<PatternPrefix \o owner \o <<"/">> \o repo,
      <<"g", "i", "t", "h", "u", "b", ".", "c", "o", "m", "/">> \o owner \o <<"/">> \o repo,
      <<"h", "t", "t", "p", "s", ":", "/", "/", "w", "w", "w", ".", "g", "i", "t", "h", "u", "b", ".", "c", "o", "m", "/">> \o owner \o <<"/">> \o repo \o <<"/">>,
      PatternPrefix \o owner \o <<"/">> \o repo \o GitSuffix,
      PatternPrefix \o owner,
      <<"n", "o", "t", "-", "a", "-", "u", "r", "l">>>>

InitUrl ==
    /\ vu_owner \in Owners
    /\ vu_repo \in RepoNames
    /\ vu_i = 1
    /\ vu_results = <<>>
    /\ IdleExcept("url")

\* One turn of `for url in test_urls` (lines 33-38).
ValidateNextUrl ==
    /\ vu_i <= Len(TestUrls(vu_owner, vu_repo))
    /\ vu_results' =
          Append(vu_results, ValidateGithubUrl(TestUrls(vu_owner, vu_repo)[vu_i]))
    /\ vu_i' = vu_i + 1
    /\ UNCHANGED <<vu_owner, vu_repo, pbVars, called_again, dlVars, sideVars,
                   runVars, embedVars, chunkVars>>

NextUrl == ValidateNextUrl

SpecUrl == InitUrl /\ [][NextUrl]_vars

\* Does the name hold ".git" somewhere?
HoldsGitSuffix(name) ==
    \E k \in 1..Len(name) :
        k + Len(GitSuffix) - 1 <= Len(name)
        /\ SubSeq(name, k, k + Len(GitSuffix) - 1) = GitSuffix

\* C21: validate_github_url returns for each of the four spellings of one
\* repository, with the same owner and repo for all four (the owner and repo
\* the URL was spelled with when neither holds ".git"), and raises
\* RepositoryError for the URL with a single path segment and for the
\* string that is not a GitHub URL.
C21_FourSpellingsOneRepository ==
    \A k \in 1..Len(vu_results) :
        /\ k <= 4 =>
              /\ vu_results[k].kind = "returned"
              /\ vu_results[k] = vu_results[1]
              /\ (~HoldsGitSuffix(vu_owner) /\ ~HoldsGitSuffix(vu_repo)) =>
                    vu_results[k] = UrlReturned(vu_owner, vu_repo)
        /\ k > 4 => vu_results[k] = UrlRaised

\* All six URLs of the test have been validated for octocat/Hello-World.
C21_Witness ==
    /\ Len(vu_results) = 6
    /\ vu_results[4] = UrlReturned(<<"o", "c", "t", "o", "c", "a", "t">>, <<"H", "e", "l", "l", "o", "-", "W", "o", "r", "l", "d">>)
    /\ vu_results[6].kind = "RepositoryError"

\* ------------------------------------------------------------------
\* POST /index-repo when the download fails: download_repository
\* (repository_service.py 68-153), index_repository_helper and
\* handle_repository_error (api_helpers.py), index_repository (main.py).
\* A message is a sequence of characters, "SP" the space.
\* ------------------------------------------------------------------

UpperCase ==
    <<"A", "B", "C", "D", "E", "F", "G", "H", "I", "J", "K", "L", "M", "N",
      "O", "P", "Q", "R", "S", "T", "U", "V", "W", "X", "Y", "Z">>

LowerCase ==
    <<"a", "b", "c", "d", "e", "f", "g", "h", "i", "j", "k", "l", "m", "n",
      "o", "p", "q", "r", "s", "t", "u", "v", "w", "x", "y", "z">>

\* str.lower()
LowerChar(c) ==
    IF \E i \in 1..Len(UpperCase) : UpperCase[i] = c
    THEN LowerCase[CHOOSE i \in 1..Len(UpperCase) : UpperCase[i] = c]
    ELSE c

LowerMsg(msg) == [i \in 1..Len(msg) |-> LowerChar(msg[i])]

\* sub in text
Contains(text, sub) ==
    \E k \in 0..(Len(text) - Len(sub)) :
        SubSeq(text, k + 1, k + Len(sub)) = sub

\* The messages of download_repository and validate_github_url.
MsgInvalidUrl ==
    <<"I", "n", "v", "a", "l", "i", "d", "SP", "G", "i", "t", "H", "u", "b",
      "SP", "U", "R", "L", "SP", "f", "o", "r", "m", "a", "t", ".", "SP",
      "E", "x", "p", "e", "c", "t", "e", "d", ":", "SP", "g", "i", "t", "h",
      "u", "b", ".", "c", "o", "m", "/", "o", "w", "n", "e", "r", "/", "r",
      "e", "p", "o">>

MsgNotFound ==
    <<"R", "e", "p", "o", "s", "i", "t", "o", "r", "y", "SP", "n", "o", "t",
      "SP", "f", "o", "u", "n", "d", "SP", "o", "r", "SP", "i", "s", "SP",
      "p", "r", "i", "v", "a", "t", "e">>

MsgForbidden ==
    <<"R", "e", "p", "o", "s", "i", "t", "o", "r", "y", "SP", "a", "c", "c",
      "e", "s", "s", "SP", "f", "o", "r", "b", "i", "d", "d", "e", "n", "SP",
      "(", "l", "i", "k", "e", "l", "y", "SP", "p", "r", "i", "v", "a", "t",
      "e", ")">>

MsgApiError ==
    <<"G", "i", "t", "H", "u", "b", "SP", "A", "P", "I", "SP", "e", "r", "r",
      "o", "r", ":", "SP">>

MsgTimedOut ==
    <<"R", "e", "p", "o", "s", "i", "t", "o", "r", "y", "SP", "d", "o", "w",
      "n", "l", "o", "a", "d", "SP", "t", "i", "m", "e", "d", "SP", "o", "u",
      "t", "SP", "(", "5", "SP", "m", "i", "n", "u", "t", "e", "s", ")">>

MsgNetwork ==
    <<"N", "e", "t", "w", "o", "r", "k", "SP", "e", "r", "r", "o", "r", ":",
      "SP">>

MsgBadZip ==
    <<"D", "o", "w", "n", "l", "o", "a", "d", "e", "d", "SP", "f", "i", "l",
      "e", "SP", "i", "s", "SP", "n", "o", "t", "SP", "a", "SP", "v", "a",
      "l", "i", "d", "SP", "Z", "I", "P", "SP", "a", "r", "c", "h", "i", "v",
      "e">>

MsgUnexpected ==
    <<"U", "n", "e", "x", "p", "e", "c", "t", "e", "d", "SP", "e", "r", "r",
      "o", "r", "SP", "d", "u", "r", "i", "n", "g", "SP", "d", "o", "w", "n",
      "l", "o", "a", "d", ":", "SP">>

\* The keywords of handle_repository_error.
KeyNotFound ==
    <<"n", "o", "t", "SP", "f", "o", "u", "n", "d">>

KeyPrivate ==
    <<"p", "r", "i", "v", "a", "t", "e">>

KeyInvalid ==
    <<"i", "n", "v", "a", "l", "i", "d">>

KeyTimeout ==
    <<"t", "i", "m", "e", "o", "u", "t">>

KeyNetwork ==
    <<"n", "e", "t", "w", "o", "r", "k">>

\* str(e) of an httpx.RequestError.
NetworkDetails ==
    {<<"A", "l", "l", "SP", "c", "o", "n", "n", "e", "c", "t", "i", "o", "n",
       "SP", "a", "t", "t", "e", "m", "p", "t", "s", "SP", "f", "a", "i", "l",
       "e", "d">>,
     <<"[", "E", "r", "r", "n", "o", "SP", "-", "2", "]", "SP", "N", "a", "m",
       "e", "SP", "o", "r", "SP", "s", "e", "r", "v", "i", "c", "e", "SP", "n",
       "o", "t", "SP", "k", "n", "o", "w", "n">>}

\* str(e) of an OSError while the archive is written or extracted, and of
\* the FileNotFoundError of os.listdir.
DiskDetails ==
    {<<"[", "E", "r", "r", "n", "o", "SP", "2", "8", "]", "SP", "N", "o", "SP",
       "s", "p", "a", "c", "e", "SP", "l", "e", "f", "t", "SP", "o", "n", "SP",
       "d", "e", "v", "i", "c", "e">>}

NoSuchDirectory ==
    <<"[", "E", "r", "r", "n", "o", "SP", "2", "]", "SP", "N", "o", "SP",
      "s", "u", "c", "h", "SP", "f", "i", "l", "e", "SP", "o", "r", "SP",
      "d", "i", "r", "e", "c", "t", "o", "r", "y">>

\* response.status_code of GitHub's answer and its str().
Statuses ==
    {[code |-> 200, text |-> <<"2", "0", "0">>],
     [code |-> 404, text |-> <<"4", "0", "4">>],
     [code |-> 403, text |-> <<"4", "0", "3">>],
     [code |-> 500, text |-> <<"5", "0", "0">>],
     [code |-> 429, text |-> <<"4", "2", "9">>]}

RepositoryError(message) ==
    [type |-> "RepositoryError", message |-> message, status_code |-> 0,
     error_code |-> "none"]

HTTPException(status_code, error_code, message) ==
    [type |-> "HTTPException", message |-> message,
     status_code |-> status_code, error_code |-> error_code]

\* handle_repository_error(e), lines 35-62.
HandleRepositoryError(e) ==
    LET error_msg == e.message
        lower == LowerMsg(error_msg)
    IN  IF Contains(lower, KeyNotFound) \/ Contains(lower, KeyPrivate)
        THEN HTTPException(404, "REPOSITORY_NOT_FOUND", error_msg)
        ELSE IF Contains(lower, KeyInvalid)
        THEN HTTPException(400, "INVALID_URL", error_msg)
        ELSE IF Contains(lower, KeyTimeout)
        THEN HTTPException(408, "TIMEOUT", error_msg)
        ELSE IF Contains(lower, KeyNetwork)
        THEN HTTPException(503, "NETWORK_ERROR", error_msg)
        ELSE HTTPException(400, "REPOSITORY_ERROR", error_msg)

MsgUnexpectedError ==
    <<"U", "n", "e", "x", "p", "e", "c", "t", "e", "d", "SP", "e", "r", "r",
      "o", "r", ":", "SP">>

\* handle_unexpected_error(e), lines 76-84; str(e) is taken to be the
\* message e carries.
HandleUnexpectedError(e) ==
    HTTPException(500, "INTERNAL_ERROR", MsgUnexpectedError \o e.message)

\* The `except Exception` of download_repository, lines 143-153: the three
\* paths are removed.
CleanedUp == [target |-> FALSE, zip |-> FALSE, temp |-> FALSE]

\* The request's repo_url: the six spellings of the test.
RepoUrls ==
    { TestUrls(<<"o", "c", "t", "o", "c", "a", "t">>, <<"r">>)[k] : k \in 1..6 }

\* The cause of the failure and the RepositoryError download_repository
\* raised for it.
NoCause == [what |-> "none", error |-> NoException]
Cause(what, e) == [what |-> what, error |-> e]

InitDownload ==
    /\ dl_pc = "download"
    /\ dl_url \in RepoUrls
    /\ \E target \in BOOLEAN :
          dl_disk = [target |-> target, zip |-> FALSE, temp |-> FALSE]
    /\ dl_cause = NoCause
    /\ dl_raised = NoException
    /\ dl_response = NoException
    /\ IdleExcept("download")

DlUnchanged == <<pbVars, called_again, urlVars, sideVars, runVars, embedVars,
                 chunkVars>>

\* download_repository raises e for the cause `what`, leaving `disk`.
DownloadRaises(what, e, disk) ==
    /\ dl_raised' = e
    /\ dl_cause' = Cause(what, e)
    /\ dl_disk' = disk
    /\ dl_pc' = "raised"

\* Lines 82-89: the URL is validated outside the try, an existing local_path
\* is removed.
DownloadRepository ==
    /\ dl_pc = "download"
    /\ IF ValidateGithubUrl(dl_url) = UrlRaised
       THEN DownloadRaises("invalid_url", RepositoryError(MsgInvalidUrl),
                           dl_disk)
       ELSE /\ dl_disk' = [dl_disk EXCEPT !.target = FALSE]
            /\ dl_pc' = "get"
            /\ UNCHANGED <<dl_cause, dl_raised>>
    /\ UNCHANGED <<dl_url, dl_response, DlUnchanged>>

\* client.get(api_url) raises: httpx.TimeoutException (lines 137-138) or
\* another httpx.RequestError (lines 139-140).
ClientGetRaises ==
    /\ dl_pc = "get"
    /\ \/ DownloadRaises("timeout", RepositoryError(MsgTimedOut), dl_disk)
       \/ \E detail \in NetworkDetails :
             DownloadRaises("network", RepositoryError(MsgNetwork \o detail),
                            dl_disk)
    /\ UNCHANGED <<dl_url, dl_response, DlUnchanged>>

\* client.get answers.  A status other than 200 raises a RepositoryError
\* inside the try (lines 99-104), which the `except Exception` of line 143
\* catches, cleans up for and wraps; 200 writes the archive (lines 107-109),
\* or an OSError of open/write is caught by line 143 as well.
ClientGetAnswers ==
    /\ dl_pc = "get"
    /\ \E status \in Statuses :
          IF status.code = 404
          THEN DownloadRaises("status_404",
                   RepositoryError(MsgUnexpected \o MsgNotFound), CleanedUp)
          ELSE IF status.code = 403
          THEN DownloadRaises("status_403",
                   RepositoryError(MsgUnexpected \o MsgForbidden), CleanedUp)
          ELSE IF status.code # 200
          THEN DownloadRaises("status_other",
                   RepositoryError(MsgUnexpected \o MsgApiError \o status.text),
                   CleanedUp)
          ELSE \/ /\ dl_disk' = [dl_disk EXCEPT !.zip = TRUE]
                  /\ dl_pc' = "extract"
                  /\ UNCHANGED <<dl_cause, dl_raised>>
               \/ \E detail \in DiskDetails :
                     DownloadRaises("other",
                         RepositoryError(MsgUnexpected \o detail), CleanedUp)
    /\ UNCHANGED <<dl_url, dl_response, DlUnchanged>>

\* Lines 112-113.  zipfile.ZipFile raises BadZipFile for a body that is no
\* archive, extractall raises it for a damaged member after earlier members
\* were extracted; the handler of lines 141-142 removes nothing.  An OSError
\* goes to line 143.  Otherwise local_path_temp holds the members; an
\* archive without members creates no directory.
ExtractZip ==
    /\ dl_pc = "extract"
    /\ \/ \E extracted \in BOOLEAN :
             DownloadRaises("bad_zip", RepositoryError(MsgBadZip),
                            [dl_disk EXCEPT !.temp = extracted])
       \/ \E detail \in DiskDetails :
             DownloadRaises("other",
                 RepositoryError(MsgUnexpected \o detail), CleanedUp)
       \/ /\ \E members \in BOOLEAN :
                dl_disk' = [dl_disk EXCEPT !.temp = members]
          /\ dl_pc' = "move"
          /\ UNCHANGED <<dl_cause, dl_raised>>
    /\ UNCHANGED <<dl_url, dl_response, DlUnchanged>>

\* Lines 116-135: os.listdir(temp_dir) raises FileNotFoundError when nothing
\* was extracted (line 143 again); otherwise the nested folder is moved to
\* local_path, temp_dir and the archive are removed and the dict returned.
MoveAndReturn ==
    /\ dl_pc = "move"
    /\ IF dl_disk.temp
       THEN /\ dl_disk' = [target |-> TRUE, zip |-> FALSE, temp |-> FALSE]
            /\ dl_pc' = "downloaded"
            /\ UNCHANGED <<dl_cause, dl_raised>>
       ELSE DownloadRaises("other",
                RepositoryError(MsgUnexpected \o NoSuchDirectory), CleanedUp)
    /\ UNCHANGED <<dl_url, dl_response, DlUnchanged>>

\* index_repository_helper, lines 140-141: except RepositoryError as e:
\* raise self.handle_repository_error(e).  The HTTPException leaves the
\* helper: the `except Exception` of line 142 belongs to the same try.
HelperExcept ==
    /\ dl_pc = "raised"
    /\ dl_raised.type = "RepositoryError"
    /\ dl_raised' = HandleRepositoryError(dl_raised)
    /\ dl_pc' = "helper_raised"
    /\ UNCHANGED <<dl_url, dl_disk, dl_cause, dl_response, DlUnchanged>>

\* index_repository, lines 74-79: what leaves the helper is caught by
\* `except RepositoryError` or, any other Exception (fastapi's HTTPException
\* is one), by `except Exception`; the exception raised there is the answer.
EndpointExcept ==
    /\ dl_pc = "helper_raised"
    /\ dl_response' = IF dl_raised.type = "RepositoryError"
                      THEN HandleRepositoryError(dl_raised)
                      ELSE HandleUnexpectedError(dl_raised)
    /\ dl_raised' = NoException
    /\ dl_pc' = "answered"
    /\ UNCHANGED <<dl_url, dl_disk, dl_cause, DlUnchanged>>

NextDownload ==
    \/ DownloadRepository
    \/ ClientGetRaises
    \/ ClientGetAnswers
    \/ ExtractZip
    \/ MoveAndReturn
    \/ HelperExcept
    \/ EndpointExcept

SpecDownload == InitDownload /\ [][NextDownload]_vars

\* C29: when download_repository failed with a RepositoryError, the answer of
\* POST /index-repo has the status code and error_code handle_repository_error
\* chooses for that error (404 for a repository not found or private, 400 for
\* an invalid URL, 408 for a timeout, 503 for a network error), never 500
\* INTERNAL_ERROR.
C29_RepositoryErrorKeepsItsStatus ==
    dl_pc = "answered" =>
        /\ dl_response.status_code # 500
        /\ dl_response.error_code # "INTERNAL_ERROR"
        /\ dl_response.status_code =
              HandleRepositoryError(dl_cause.error).status_code
        /\ dl_response.error_code =
              HandleRepositoryError(dl_cause.error).error_code
        /\ dl_cause.what \in {"status_404", "status_403"} =>
              dl_response.status_code = 404
        /\ dl_cause.what = "invalid_url" => dl_response.status_code = 400
        /\ dl_cause.what = "timeout" => dl_response.status_code = 408
        /\ dl_cause.what = "network" => dl_response.status_code = 503

\* C30: after download_repository raised a RepositoryError past its URL
\* validation (HTTP status, timeout, network error, bad ZIP, any other
\* exception), local_path, local_path.zip and local_path_temp are all
\* absent.
C30_NothingLeftOnDisk ==
    (dl_cause.what \notin {"none", "invalid_url"}) =>
        /\ ~dl_disk.target
        /\ ~dl_disk.zip
        /\ ~dl_disk.temp

====
